---- MODULE Spec2Model ----
(***************************************************************************)
(* femtobot: a state-machine model of the memory pipeline.                 *)
(*                                                                         *)
(*   SpecCons     MemoryConsolidator::consolidate over a vector store      *)
(*   SpecCompact  AgentLoop::build_history_for_llm as a function           *)
(*   SpecAgent    AgentLoop::run and process_message, one task per message *)
(*   SpecAgentLive  SpecAgent under a runtime that polls every ready task  *)
(*   SpecExtract  MemoryExtractor::extract as a function of its messages   *)
(*   SpecFile     MemoryStore::get_memory_context as a function of the     *)
(*                note files and the budget                                *)
(*   SpecFallbackLive  AgentLoop::prompt_with_fallback under a runtime     *)
(*                that polls the task of the turn                          *)
(*   SpecCron     CronService: the scheduler loop, the tool and a command  *)
(*                line instance over one cron.json                         *)
(*                                                                         *)
(* Texts are sequences of one-character strings, Option<T> is a sequence   *)
(* of length 0 (None) or 1 (Some), scores and importances are percents.    *)
(***************************************************************************)
EXTENDS Integers, Sequences, FiniteSets, TLC

VARIABLES
    store,      \* VectorMemoryStore: the items, oldest first
    nextId,     \* the next id the store assigns
    otherAdds,  \* adds made by other sessions so far
    c_pc,       \* consolidate: where the batch is
    c_facts,    \* consolidate: the facts argument
    c_ns,       \* consolidate: the namespace argument
    c_i,        \* consolidate: index of the fact of the for loop
    c_similar,  \* consolidate_single: the search result of the current fact
    c_valid,    \* consolidate: valid_ids of the current fact
    c_result,   \* consolidate: the ConsolidationResult of the current fact
    c_results,  \* consolidate: the results vector
    c_trace,    \* per pushed result: what was searched, answered and called
    k_history,  \* compactor: the stored history handed to build_history_for_llm
    k_cfg,      \* compactor: the CompactionConfig
    k_built,    \* compactor: what build_history_for_llm returned
    k_pc,       \* compactor: "ready", "built" or "scanned"
    k_scan,     \* compactor: a call of extract_facts_from_messages and its result
    a_script,   \* agent: the inbound messages and what their environment answers
    a_tasks,    \* agent: per inbound message, the task spawned for it
    a_histories, \* agent: session key -> the mutex-guarded stored history
    a_mapHolder, \* agent: the task holding the mutex of the histories map, or 0
    a_outbound, \* bus: the outbound messages published so far
    a_extracts, \* agent: the calls of extract so far: session and history passed
    x_messages, \* extractor: the messages argument of extract
    x_max_facts, \* extractor: MemoryExtractor::max_facts
    x_pc,       \* extractor: "ready", "awaiting", "returned" or "panicked"
    x_calls,    \* extractor: completion calls made by this extract
    x_facts,    \* extractor: the facts extract returned
    f_long_term, \* notes: the content of MEMORY.md
    f_today,    \* notes: the content of today's file
    f_max_chars, \* notes: the max_chars argument of get_memory_context
    f_pc,       \* notes: "ready", "returned", "panicked", "cut" or "cut_panicked"
    f_out,      \* notes: what get_memory_context returned
    p_routes,   \* fallback: self.agents, the configured routes in order
    p_history,  \* fallback: the history_for_llm argument
    p_pc,       \* fallback: "ready", "awaiting", "sleeping", "returned" or "hung"
    p_route,    \* fallback: index of the route of the for loop
    p_attempt,  \* fallback: the attempt counter of the current route
    p_temp,     \* fallback: temp_history of the current attempt
    p_errors,   \* fallback: the errors vector
    p_log,      \* fallback: the provider calls made so far
    p_result,   \* fallback: what prompt_with_fallback returned
    q_file,     \* cron: the jobs persisted in cron.json
    q_mem,      \* cron: per CronService instance, store.jobs in memory
    q_pc,       \* cron: per instance, where it is
    q_arg,      \* cron: the argument of the command line call in progress
    q_wake,     \* cron: next_wake_ms.is_some() of the scheduler's iteration
    q_notify,   \* cron: the scheduler instance's Notify holds a permit
    q_now,      \* cron: the clock, in milliseconds
    q_nextId,   \* cron: the next job id generated
    q_inbound,  \* bus: the inbound messages published by the latest pass
    q_removed,  \* cron: the ids for which remove_job returned true
    q_added     \* cron: the ids of the jobs added from the command line

consVars == <<store, nextId, otherAdds, c_pc, c_facts, c_ns, c_i, c_similar,
              c_valid, c_result, c_results, c_trace>>

compactVars == <<k_history, k_cfg, k_built, k_pc, k_scan>>

agentVars == <<a_script, a_tasks, a_histories, a_mapHolder, a_outbound, a_extracts>>

extractVars == <<x_messages, x_max_facts, x_pc, x_calls, x_facts>>

fileVars == <<f_long_term, f_today, f_max_chars, f_pc, f_out>>

fallbackVars == <<p_routes, p_history, p_pc, p_route, p_attempt, p_temp, p_errors,
                  p_log, p_result>>

cronVars == <<q_file, q_mem, q_pc, q_arg, q_wake, q_notify, q_now, q_nextId,
              q_inbound, q_removed, q_added>>

sideVars == <<fallbackVars, cronVars>>

pureVars == <<extractVars, fileVars, sideVars>>

vars == <<consVars, compactVars, agentVars, pureVars>>

----------------------------------------------------------------------------
(* Bounds of the model *)

MaxMemories == 3
MaxOtherAdds == 1
MaxHistLen == 5
MaxThreshold == 4
MaxKeep == 2
MaxSummaryTurns == 1
MaxInFlight == 2
LongSessionTurns == 26
MaxHead == 3
MaxFiller == 19
MaxNoteLen == 260
MaxBudget == 400
MaxRoutes == 2
MaxTicks == 2
MaxAdds == 1
MaxRemoves == 1
MaxFileJobs == 2

----------------------------------------------------------------------------
(* Option<T> *)

None == <<>>
Some(x) == <<x>>
IsSome(o) == Len(o) = 1
Unwrap(o) == o[1]

OrElse(o, alt) == IF IsSome(o) THEN o ELSE alt

----------------------------------------------------------------------------
(* Texts *)

Whitespace == {" ", "\n", "\t"}

RECURSIVE TrimStart(_)
TrimStart(t) ==
    IF t = <<>> THEN <<>>
    ELSE IF Head(t) \in Whitespace THEN TrimStart(Tail(t)) ELSE t

RECURSIVE TrimEnd(_)
TrimEnd(t) ==
    IF t = <<>> THEN <<>>
    ELSE IF t[Len(t)] \in Whitespace THEN TrimEnd(SubSeq(t, 1, Len(t) - 1)) ELSE t

Trim(t) == TrimEnd(TrimStart(t))

\* text.replace('<', "&lt;").replace('>', "&gt;")
sanitize_storage_content(text) ==
    LET RECURSIVE go(_)
        go(t) == IF t = <<>> THEN <<>>
                 ELSE IF Head(t) = "<" THEN <<"&", "l", "t", ";">> \o go(Tail(t))
                 ELSE IF Head(t) = ">" THEN <<"&", "g", "t", ";">> \o go(Tail(t))
                 ELSE <<Head(t)>> \o go(Tail(t))
    IN go(text)

HasMarkup(t) == \E k \in 1..Len(t) : t[k] \in {"<", ">"}

TextNameA == <<"n", "a", "m", "e", "A">>
TextNameAS == <<"n", "a", "m", "e", "A", "S">>
TextMarkup == <<"x", "<", "y", ">", "z">>
TextShort == <<" ", "h", "i", " ", " ", " ">>
TextPadded == <<" ", "c", "i", "t", "y", "B", " ">>
TextMerged == <<"n", "<", "M", ">">>

\* f32 importance: finite or not, and its value in percent
Imp(v) == [finite |-> TRUE, v |-> v]
ImpNaN == [finite |-> FALSE, v |-> 0]

\* ExtractedFact values
Namespaces == {"s1", "s2"}

FactNameA == [content |-> TextNameA, importance |-> Imp(90), source |-> "llm"]
FactNameAS == [content |-> TextNameAS, importance |-> Imp(70), source |-> "llm"]
FactMarkup == [content |-> TextMarkup, importance |-> Imp(130), source |-> "heuristic"]
FactShort == [content |-> TextShort, importance |-> Imp(30), source |-> "heuristic"]
FactPadded == [content |-> TextPadded, importance |-> ImpNaN, source |-> "llm"]
FactBelow == [content |-> TextNameAS, importance |-> Imp(-20), source |-> "heuristic"]

\* the batches handed to consolidate
BatchInputs ==
    { <<FactNameAS>>, <<FactPadded>>, <<FactBelow>>,
      <<FactNameA, FactNameA>>, <<FactMarkup, FactMarkup>>,
      <<FactShort, FactNameAS, FactShort>> }

----------------------------------------------------------------------------
(* VectorMemoryStore: add / update / delete / search                       *)

CandidateThreshold == 50
SearchK == 3
MinScoreFloor == 30
MinFactLen == 5

\* cosine similarity of the embeddings of two texts, in percent
Score(q, c) ==
    IF q = c THEN 100
    ELSE IF q # <<>> /\ c # <<>> /\ q[1] = c[1] THEN 80
    ELSE 20

StoreIds(st) == { st[k].id : k \in 1..Len(st) }

ItemById(st, id) == st[CHOOSE k \in 1..Len(st) : st[k].id = id]

RemoveAt(s, k) == SubSeq(s, 1, k - 1) \o SubSeq(s, k + 1, Len(s))

\* the item evicted when the capacity bound would be exceeded:
\* least importance, then oldest
EvictIndex(st) ==
    CHOOSE k \in 1..Len(st) :
        \A j \in 1..Len(st) :
            \/ st[k].importance < st[j].importance
            \/ st[k].importance = st[j].importance /\ k <= j

StoreAdd(st, content, imp, ns, id) ==
    LET base == IF Len(st) >= MaxMemories THEN RemoveAt(st, EvictIndex(st)) ELSE st
    IN Append(base, [id |-> id, content |-> sanitize_storage_content(content),
                     ns |-> ns, importance |-> imp])

StoreHas(st, id, ns) == \E k \in 1..Len(st) : st[k].id = id /\ st[k].ns = ns

StoreUpdate(st, id, content, imp, ns) ==
    [k \in 1..Len(st) |->
        IF st[k].id = id /\ st[k].ns = ns
        THEN [st[k] EXCEPT !.content = content, !.importance = imp]
        ELSE st[k]]

RECURSIVE Without(_, _, _)
Without(st, id, ns) ==
    IF st = <<>> THEN <<>>
    ELSE IF Head(st).id = id /\ Head(st).ns = ns THEN Without(Tail(st), id, ns)
    ELSE <<Head(st)>> \o Without(Tail(st), id, ns)

StoreDelete(st, id, ns) == Without(st, id, ns)

RECURSIVE Eligible(_, _, _, _, _)
Eligible(st, q, threshold, ns, floor) ==
    IF st = <<>> THEN <<>>
    ELSE LET it == Head(st)
             sc == Score(q, it.content)
             rest == Eligible(Tail(st), q, threshold, ns, floor)
         IN IF it.ns = ns /\ sc >= threshold /\ sc >= floor
            THEN <<[item |-> it, score |-> sc]>> \o rest
            ELSE rest

RECURSIVE RankTop(_, _)
RankTop(cands, k) ==
    IF k = 0 \/ cands = <<>> THEN <<>>
    ELSE LET best == CHOOSE b \in 1..Len(cands) :
                        \A j \in 1..Len(cands) :
                            \/ cands[b].score > cands[j].score
                            \/ cands[b].score = cands[j].score /\ b <= j
         IN <<cands[best]>> \o RankTop(RemoveAt(cands, best), k - 1)

StoreSearch(st, q, k, threshold, ns, floor) ==
    RankTop(Eligible(st, q, threshold, ns, floor), k)

----------------------------------------------------------------------------
(* MemoryConsolidator *)

NoResult ==
    [operation |-> "Noop", memory_id |-> None, old_content |-> None,
     new_content |-> None, similarity |-> 0, reason |-> ""]

ImportanceUnclamped(imp) == imp.v

\* the importance handed to execute_operation
ClampImportance(imp) ==
    IF imp.finite
    THEN (IF imp.v < 0 THEN 0 ELSE IF imp.v > 100 THEN 100 ELSE imp.v)
    ELSE 50

LlmFailedDropped(fact) ==
    [operation |-> "Noop", memory_id |-> None, old_content |-> None,
     new_content |-> None, similarity |-> 0, reason |-> "LLM failed"]

\* consolidate, unwrap_or_else: the result when consolidate_single fails
LlmFailedResult(fact) ==
    [operation |-> "Add", memory_id |-> None, old_content |-> None,
     new_content |-> Some(fact.content), similarity |-> 0, reason |-> "LLM failed"]

NoSimilarAsNoop(text) ==
    [operation |-> "Noop", memory_id |-> None, old_content |-> None,
     new_content |-> None, similarity |-> 0,
     reason |-> "No similar memories found"]

\* consolidate_single: the result when the search finds nothing
NoSimilarResult(text) ==
    [operation |-> "Add", memory_id |-> None, old_content |-> None,
     new_content |-> Some(text), similarity |-> 0,
     reason |-> "No similar memories found"]

ToUppercase(s) ==
    CASE s = "delete" -> "DELETE"
      [] s = "merge" -> "MERGE"
      [] OTHER -> s

OperationOfNoNoop(s) ==
    CASE ToUppercase(s) = "UPDATE" -> "Update"
      [] ToUppercase(s) = "DELETE" -> "Delete"
      [] OTHER -> "Add"

\* llm_decide_operation, lines 184-189
OperationOf(s) ==
    CASE ToUppercase(s) = "UPDATE" -> "Update"
      [] ToUppercase(s) = "DELETE" -> "Delete"
      [] ToUppercase(s) = "NOOP" -> "Noop"
      [] OTHER -> "Add"

CandidateIds(cands) == { cands[k].item.id : k \in 1..Len(cands) }

FindCandidate(cands, id) ==
    cands[CHOOSE k \in 1..Len(cands) :
            /\ cands[k].item.id = id
            /\ \A j \in 1..(k - 1) : cands[j].item.id # id]

\* llm_decide_operation, lines 191-200: the result before the id is checked
BaseResult(text, cands, decision) ==
    [operation |-> OperationOf(decision.operation),
     memory_id |-> decision.memory_id,
     old_content |-> None,
     new_content |-> OrElse(decision.content, Some(text)),
     similarity |-> IF cands = <<>> THEN 0 ELSE cands[1].score,
     reason |-> IF IsSome(decision.reason) THEN Unwrap(decision.reason)
                ELSE "LLM decision"]

TargetFoundTopScore(result, c) == [result EXCEPT !.old_content = Some(c.item.content)]

TargetFoundNoOld(result, c) == [result EXCEPT !.similarity = c.score]

\* lines 207-208: the id names the candidate c
TargetFound(result, c) ==
    [result EXCEPT !.old_content = Some(c.item.content), !.similarity = c.score]

InvalidIdKept(result) == result

\* lines 210-212: the id names no candidate
InvalidId(result) ==
    [result EXCEPT !.operation = "Add", !.memory_id = None,
                   !.reason = "Invalid memory_id"]

MissingIdKept(result) == result

\* lines 215-216: UPDATE or DELETE without an id
MissingId(result) ==
    [result EXCEPT !.operation = "Add", !.reason = "Missing memory_id"]

\* llm_decide_operation, after the response parsed: lines 184-220
ValidateDecision(text, cands, decision) ==
    LET result == BaseResult(text, cands, decision)
    IN IF result.operation \in {"Update", "Delete"}
       THEN IF IsSome(decision.memory_id)
            THEN IF Unwrap(decision.memory_id) \in CandidateIds(cands)
                 THEN TargetFound(result,
                                  FindCandidate(cands, Unwrap(decision.memory_id)))
                 ELSE InvalidId(result)
            ELSE MissingId(result)
       ELSE result

\* what the completion provider may answer
NoResponse == [kind |-> "none", operation |-> "", memory_id |-> None,
               content |-> None, reason |-> None]
TransportFailed == [NoResponse EXCEPT !.kind = "transport_failed"]
ParseFailed == [NoResponse EXCEPT !.kind = "parse_failed"]

\* an id the store never issued
UnissuedId == 100 + MaxOtherAdds

Decision(op, id, content, reason) ==
    [kind |-> "ok", operation |-> op, memory_id |-> id, content |-> content,
     reason |-> reason]

\* a sample of the answers that parse: every operation, naming no id, a
\* candidate, an item that is no candidate, or an id the store never issued
Decisions(st, cands) ==
    LET cand == CandidateIds(cands)
        bogus == (StoreIds(st) \ cand) \cup {UnissuedId}
        top == cands[1].item
    IN { Decision("UPDATE", Some(id), Some(TextMerged), Some("model")) :
            id \in cand \cup bogus }
       \cup { Decision("UPDATE", None, Some(TextMerged), Some("model")),
              Decision("UPDATE", Some(top.id), None, None),
              Decision("delete", None, None, Some("model")),
              Decision("delete", Some(top.id), Some(top.content), Some("model")),
              Decision("NOOP", None, None, Some("model")),
              Decision("ADD", None, None, None),
              Decision("merge", None, Some(TextMerged), Some("model")) }
       \cup { Decision("delete", Some(id), Some(TextMerged), None) :
                id \in {top.id} \cup bogus }
       \cup { Decision(op, Some(UnissuedId), None, Some("model")) :
                op \in {"NOOP", "ADD"} }

Responses(st, cands) == {TransportFailed, ParseFailed} \cup Decisions(st, cands)

----------------------------------------------------------------------------
(* State of a consolidation and its actions *)

NoTrace ==
    [idx |-> 0, similar |-> <<>>, search_ok |-> FALSE, resp |-> NoResponse,
     calls |-> <<>>, before |-> <<>>, after |-> <<>>, finished |-> FALSE]

Item(id, content, ns, imp) ==
    [id |-> id, content |-> content, ns |-> ns, importance |-> imp]

\* what the store may hold when it is opened: items of earlier consolidations
PersistedFull ==
    <<Item(1, TextNameA, "s1", 90), Item(2, Trim(TextPadded), "s1", 50),
      Item(3, TextNameA, "s2", 70)>>

PersistedMarkup ==
    <<Item(1, sanitize_storage_content(TextMarkup), "s1", 100),
      Item(2, TextNameAS, "s1", 70)>>

PersistedStores == {<<>>, PersistedFull, PersistedMarkup}

\* the consolidator before any call, over the store as it was opened
ConsOpened(persisted) ==
    /\ store = persisted
    /\ nextId = Len(persisted) + 1
    /\ otherAdds = 0
    /\ c_pc = "idle"
    /\ c_facts = <<>>
    /\ c_ns = "s1"
    /\ c_i = 1
    /\ c_similar = <<>>
    /\ c_valid = <<>>
    /\ c_result = NoResult
    /\ c_results = <<>>
    /\ c_trace = <<>>

ConsInit == \E persisted \in PersistedStores : ConsOpened(persisted)

ConsIdle == ConsOpened(<<>>)

\* the ids of a search result, as consolidate_single collects them
IdsOf(similar) == [k \in 1..Len(similar) |-> similar[k].item.id]

Contains(seq, x) == \E k \in 1..Len(seq) : seq[k] = x

SetLast(seq, x) == [seq EXCEPT ![Len(seq)] = x]
Last(seq) == seq[Len(seq)]

LogCall(trace, call) ==
    SetLast(trace, [Last(trace) EXCEPT !.calls = Append(@, call)])

Finish(trace, st) ==
    SetLast(trace, [Last(trace) EXCEPT !.after = st, !.finished = TRUE])

Call(op, id, content, ok) == [op |-> op, id |-> id, content |-> content, ok |-> ok]

\* a caller invokes consolidate(facts, namespace)
StartBatch ==
    /\ UNCHANGED <<compactVars, agentVars, pureVars>>
    /\ c_pc = "idle"
    /\ \E facts \in BatchInputs, ns \in Namespaces :
        /\ c_facts' = facts
        /\ c_ns' = ns
    /\ c_pc' = "loop"
    /\ c_i' = 1
    /\ c_similar' = <<>>
    /\ c_valid' = <<>>
    /\ c_result' = NoResult
    /\ c_results' = <<>>
    /\ c_trace' = <<>>
    /\ UNCHANGED <<store, nextId, otherAdds>>

\* consolidate, lines 70-73 and 109: the head of the for loop
LoopHead ==
    /\ UNCHANGED <<compactVars, agentVars, pureVars>>
    /\ c_pc = "loop"
    /\ IF c_i > Len(c_facts)
       THEN c_pc' = "done" /\ c_i' = c_i
       ELSE IF Len(Trim(c_facts[c_i].content)) < MinFactLen
            THEN c_pc' = "loop" /\ c_i' = c_i + 1
            ELSE c_pc' = "search" /\ c_i' = c_i
    /\ UNCHANGED <<store, nextId, otherAdds, c_facts, c_ns, c_similar, c_valid,
                   c_result, c_results, c_trace>>

PushResult(result, similar, search_ok, resp) ==
    /\ c_result' = result
    /\ c_results' = Append(c_results, result)
    /\ c_trace' = Append(c_trace,
            [NoTrace EXCEPT !.idx = c_i, !.similar = similar,
                            !.search_ok = search_ok, !.resp = resp,
                            !.before = store])
    /\ c_pc' = "exec"

\* consolidate_single, lines 117-134, and consolidate's fallback, lines 78-92
Search ==
    /\ UNCHANGED <<compactVars, agentVars, pureVars>>
    /\ c_pc = "search"
    /\ LET fact == c_facts[c_i]
           text == Trim(fact.content)
       IN \/ \* store.search fails (embedding gateway)
             /\ c_similar' = <<>>
             /\ c_valid' = <<>>
             /\ PushResult(LlmFailedResult(fact), <<>>, FALSE, NoResponse)
          \/ LET similar == StoreSearch(store, text, SearchK, CandidateThreshold,
                                        c_ns, MinScoreFloor)
             IN /\ c_similar' = similar
                /\ c_valid' = IdsOf(similar)
                /\ IF similar = <<>>
                   THEN PushResult(NoSimilarResult(text), similar, TRUE, NoResponse)
                   ELSE /\ c_pc' = "llm"
                        /\ UNCHANGED <<c_result, c_results, c_trace>>
    /\ UNCHANGED <<store, nextId, otherAdds, c_facts, c_ns, c_i>>

\* llm_decide_operation, and consolidate's fallback when it fails
LlmDecide ==
    /\ UNCHANGED <<compactVars, agentVars, pureVars>>
    /\ c_pc = "llm"
    /\ LET fact == c_facts[c_i]
           text == Trim(fact.content)
       IN \E resp \in Responses(store, c_similar) :
            IF resp.kind = "ok"
            THEN /\ PushResult(ValidateDecision(text, c_similar, resp),
                               c_similar, TRUE, resp)
                 /\ UNCHANGED c_valid
            ELSE /\ PushResult(LlmFailedResult(fact), c_similar, TRUE, resp)
                 /\ c_valid' = <<>>
    /\ UNCHANGED <<store, nextId, otherAdds, c_facts, c_ns, c_i, c_similar>>

ExecOutcomePcAbort(ok) == IF ok THEN "loop" ELSE "done"

\* consolidate, lines 100-108: an Err of execute_operation is logged
ExecOutcomePc(ok) == "loop"

\* execute_operation returned (ok: with Ok): on to the next fact
NextFact(trace, st, ok) ==
    /\ c_pc' = ExecOutcomePc(ok)
    /\ c_i' = c_i + 1
    /\ c_trace' = Finish(trace, st)

\* store.add(sanitize_storage_content(content), metadata, namespace)
DoAdd(content, importance) ==
    LET arg == sanitize_storage_content(content)
    IN \/ /\ store' = StoreAdd(store, arg, importance, c_ns, nextId)
          /\ nextId' = nextId + 1
          /\ NextFact(LogCall(c_trace, Call("add", None, arg, TRUE)), store', TRUE)
       \/ /\ UNCHANGED <<store, nextId>>
          /\ NextFact(LogCall(c_trace, Call("add", None, arg, FALSE)), store, FALSE)

UpdateNotFoundIsError(logged) == NextFact(logged, store, FALSE)

\* execute_operation, Update: store.update returned None, the add follows
UpdateNotFound(logged) ==
    /\ c_trace' = logged
    /\ c_pc' = "fallback_add"
    /\ UNCHANGED c_i

ReplacementAlways(result) == IsSome(result.new_content)

\* execute_operation, Delete: whether the add of the new content follows
ReplacementDiffers(result) ==
    /\ IsSome(result.new_content)
    /\ ~(/\ IsSome(result.old_content)
         /\ result.new_content = result.old_content)

ExecuteNoopAsAdd ==
    DoAdd(Trim(c_facts[c_i].content), ClampImportance(c_facts[c_i].importance))

\* execute_operation, Operation::Noop => {}
ExecuteNoop ==
    /\ NextFact(c_trace, store, TRUE)
    /\ UNCHANGED <<store, nextId>>

\* whether execute_operation lets an id through to the store
IdAllowed(valid_ids, id) == Contains(valid_ids, id)

\* execute_operation up to and including its first store call
Execute ==
    /\ UNCHANGED <<compactVars, agentVars, pureVars>>
    /\ c_pc = "exec"
    /\ LET result == c_result
           importance == ClampImportance(c_facts[c_i].importance)
       IN CASE result.operation = "Add" ->
                 IF IsSome(result.new_content)
                 THEN DoAdd(Unwrap(result.new_content), importance)
                 ELSE /\ NextFact(c_trace, store, TRUE)
                      /\ UNCHANGED <<store, nextId>>
            [] result.operation = "Update" ->
                 IF IsSome(result.memory_id) /\ IsSome(result.new_content)
                 THEN LET id == Unwrap(result.memory_id)
                          arg == sanitize_storage_content(Unwrap(result.new_content))
                      IN IF ~IdAllowed(c_valid, id)
                         THEN /\ NextFact(c_trace, store, TRUE)
                              /\ UNCHANGED <<store, nextId>>
                         ELSE \/ \* store.update fails
                                 /\ NextFact(LogCall(c_trace,
                                        Call("update", Some(id), arg, FALSE)), store, FALSE)
                                 /\ UNCHANGED <<store, nextId>>
                              \/ /\ StoreHas(store, id, c_ns)
                                 /\ store' = StoreUpdate(store, id, arg, importance, c_ns)
                                 /\ NextFact(LogCall(c_trace,
                                        Call("update", Some(id), arg, TRUE)), store', TRUE)
                                 /\ UNCHANGED nextId
                              \/ /\ ~StoreHas(store, id, c_ns)
                                 /\ UpdateNotFound(LogCall(c_trace,
                                        Call("update", Some(id), arg, TRUE)))
                                 /\ UNCHANGED <<store, nextId>>
                 ELSE /\ NextFact(c_trace, store, TRUE)
                      /\ UNCHANGED <<store, nextId>>
            [] result.operation = "Delete" ->
                 IF IsSome(result.memory_id)
                 THEN LET id == Unwrap(result.memory_id)
                      IN IF ~IdAllowed(c_valid, id)
                         THEN /\ NextFact(c_trace, store, TRUE)
                              /\ UNCHANGED <<store, nextId>>
                         ELSE \/ \* store.delete fails
                                 /\ NextFact(LogCall(c_trace,
                                        Call("delete", Some(id), <<>>, FALSE)), store, FALSE)
                                 /\ UNCHANGED <<store, nextId>>
                              \/ /\ store' = StoreDelete(store, id, c_ns)
                                 /\ UNCHANGED nextId
                                 /\ LET logged == LogCall(c_trace,
                                            Call("delete", Some(id), <<>>, TRUE))
                                    IN IF ReplacementDiffers(result)
                                       THEN /\ c_trace' = logged
                                            /\ c_pc' = "replacement_add"
                                            /\ UNCHANGED c_i
                                       ELSE NextFact(logged, store', TRUE)
                 ELSE IF ReplacementDiffers(result)
                      THEN DoAdd(Unwrap(result.new_content), importance)
                      ELSE /\ NextFact(c_trace, store, TRUE)
                           /\ UNCHANGED <<store, nextId>>
            [] OTHER -> ExecuteNoop
    /\ UNCHANGED <<otherAdds, c_facts, c_ns, c_similar, c_valid, c_result, c_results>>

\* execute_operation, Update: the add after the store reported "not found"
ExecuteFallbackAdd ==
    /\ UNCHANGED <<compactVars, agentVars, pureVars>>
    /\ c_pc = "fallback_add"
    /\ DoAdd(Unwrap(c_result.new_content),
             ClampImportance(c_facts[c_i].importance))
    /\ UNCHANGED <<otherAdds, c_facts, c_ns, c_similar, c_valid, c_result, c_results>>

\* execute_operation, Delete: the add of the replacement content
ExecuteReplacementAdd ==
    /\ UNCHANGED <<compactVars, agentVars, pureVars>>
    /\ c_pc = "replacement_add"
    /\ DoAdd(Unwrap(c_result.new_content),
             ClampImportance(c_facts[c_i].importance))
    /\ UNCHANGED <<otherAdds, c_facts, c_ns, c_similar, c_valid, c_result, c_results>>

\* while a call runs, another session's consolidation adds an item to the
\* shared store
OtherSessionAdd ==
    /\ UNCHANGED <<compactVars, agentVars, pureVars>>
    /\ c_pc # "idle"
    /\ otherAdds < MaxOtherAdds
    /\ \E ns \in Namespaces \ {c_ns} :
        store' = StoreAdd(store, TextNameA, 95, ns, 100 + otherAdds)
    /\ otherAdds' = otherAdds + 1
    /\ UNCHANGED <<nextId, c_pc, c_facts, c_ns, c_i, c_similar, c_valid, c_result,
                   c_results, c_trace>>

ConsNext ==
    \/ StartBatch
    \/ LoopHead
    \/ Search
    \/ LlmDecide
    \/ Execute
    \/ ExecuteFallbackAdd
    \/ ExecuteReplacementAdd
    \/ OtherSessionAdd


----------------------------------------------------------------------------
(* Byte lengths and String::truncate *)

\* one character that takes three bytes in UTF-8; every other character of
\* the model takes one
WideChar == "U+8A9E"

\* str::len: the length in bytes
ByteLen(t) == Len(t) + 2 * Cardinality({ k \in 1..Len(t) : t[k] = WideChar })

\* str::is_char_boundary
IsCharBoundary(t, n) ==
    IF ~\E k \in 1..Len(t) : t[k] = WideChar THEN n <= Len(t)
    ELSE n = 0 \/ \E k \in 1..Len(t) : ByteLen(SubSeq(t, 1, k)) = n

\* the number of characters in the first n bytes, n a character boundary
CharsIn(t, n) ==
    IF ~\E k \in 1..Len(t) : t[k] = WideChar THEN n
    ELSE CHOOSE k \in 0..Len(t) : ByteLen(SubSeq(t, 1, k)) = n

Returned(v) == [panicked |-> FALSE, value |-> v]
Panicked == [panicked |-> TRUE, value |-> <<>>]

\* String::truncate(new_len): no effect beyond the length, a panic inside a character
truncate(t, new_len) ==
    IF new_len > ByteLen(t) THEN Returned(t)
    ELSE IF IsCharBoundary(t, new_len)
         THEN Returned(SubSeq(t, 1, CharsIn(t, new_len)))
         ELSE Panicked

----------------------------------------------------------------------------
(* Chat histories and the session compactor *)

\* rig Message and the memory client's ChatMessage
UserMessage(text) == [kind |-> "User", text |-> text]
AssistantMessage(text) == [kind |-> "Assistant", text |-> text]
ChatMessage(role, content) == [role |-> role, content |-> content]

\* message_to_chat: the stored messages hold one text part each
message_to_chat(m) ==
    IF m.kind = "User" THEN ChatMessage("user", m.text)
    ELSE ChatMessage("assistant", m.text)

messages_to_chat(history) == [k \in 1..Len(history) |-> message_to_chat(history[k])]

chat_to_messages(chat) ==
    [k \in 1..Len(chat) |->
        IF chat[k].role = "user" THEN UserMessage(chat[k].content)
        ELSE AssistantMessage(chat[k].content)]

\* [String]::join
Join(parts, sep) ==
    LET RECURSIVE from(_)
        from(k) == IF k > Len(parts) THEN <<>>
                   ELSE IF k = Len(parts) THEN parts[k]
                   ELSE parts[k] \o sep \o from(k + 1)
    IN from(1)

\* str::lines
RECURSIVE Lines(_)
Lines(t) ==
    IF t = <<>> THEN <<>>
    ELSE LET nl == { k \in 1..Len(t) : t[k] = "\n" }
         IN IF nl = {} THEN <<t>>
            ELSE LET k == CHOOSE x \in nl : \A y \in nl : x <= y
                 IN <<SubSeq(t, 1, k - 1)>> \o Lines(SubSeq(t, k + 1, Len(t)))

LowerChar(c) ==
    CASE c = "U" -> "u"
      [] c = "I" -> "i"
      [] c = "M" -> "m"
      [] c = "R" -> "r"
      [] c = "T" -> "t"
      [] c = "A" -> "a"
      [] c = "S" -> "s"
      [] c = "B" -> "b"
      [] c = "G" -> "g"
      [] OTHER -> c

to_lowercase(t) == [k \in 1..Len(t) |-> LowerChar(t[k])]

\* str::contains
ContainsText(t, pat) ==
    \E k \in 1..(Len(t) - Len(pat) + 1) : SubSeq(t, k, k + Len(pat) - 1) = pat

Take(t, n) == SubSeq(t, 1, IF Len(t) < n THEN Len(t) ELSE n)

FACT_KEYWORDS ==
    << <<"m", "y", " ", "n", "a", "m", "e", " ", "i", "s">>,
       <<"i", " ", "a", "m">>,
       <<"i", "'", "m">>,
       <<"i", " ", "w", "o", "r", "k">>,
       <<"i", " ", "l", "i", "v", "e">>,
       <<"i", " ", "p", "r", "e", "f", "e", "r">>,
       <<"r", "e", "m", "e", "m", "b", "e", "r", " ", "t", "h", "a", "t">>,
       <<"n", "o", "t", "e", " ", "t", "h", "a", "t">>,
       <<"i", "m", "p", "o", "r", "t", "a", "n", "t", ":">>,
       <<"e", "m", "a", "i", "l", ":">>,
       <<"p", "h", "o", "n", "e", ":">>,
       <<"a", "d", "d", "r", "e", "s", "s", ":">>,
       <<"b", "i", "r", "t", "h", "d", "a", "y", ":">>,
       <<"p", "r", "o", "j", "e", "c", "t", " ", "u", "s", "e", "s">>,
       <<"u", "s", "i", "n", "g">>,
       <<"c", "o", "n", "f", "i", "g", "u", "r", "e", "d", " ", "t", "o">> >>

MaxFactChars == 200
MinFactLineLen == 10

HasFactKeyword(line) ==
    \E k \in 1..Len(FACT_KEYWORDS) : ContainsText(to_lowercase(line), FACT_KEYWORDS[k])

\* extract_facts_from_messages: the loop over the lines of one message;
\* returns the facts so far and whether max_facts was reached
RECURSIVE ScanLines(_, _, _)
ScanLines(lines, facts, max_facts) ==
    IF lines = <<>> THEN [facts |-> facts, full |-> FALSE]
    ELSE LET line == Trim(Head(lines))
             fact == Take(line, MaxFactChars)
         IN IF ByteLen(line) >= MinFactLineLen /\ HasFactKeyword(line) /\ ~Contains(facts, fact)
            THEN IF Len(facts) + 1 >= max_facts
                 THEN [facts |-> Append(facts, fact), full |-> TRUE]
                 ELSE ScanLines(Tail(lines), Append(facts, fact), max_facts)
            ELSE ScanLines(Tail(lines), facts, max_facts)

RECURSIVE ScanMessages(_, _, _)
ScanMessages(messages, facts, max_facts) ==
    IF messages = <<>> THEN facts
    ELSE IF Head(messages).role = "system"
         THEN ScanMessages(Tail(messages), facts, max_facts)
         ELSE LET r == ScanLines(Lines(Head(messages).content), facts, max_facts)
              IN IF r.full THEN r.facts
                 ELSE ScanMessages(Tail(messages), r.facts, max_facts)

extract_facts_from_messages(messages, max_facts) == ScanMessages(messages, <<>>, max_facts)

\* SessionCompactor::extract_facts: "- fact" lines joined by newlines
extract_facts(messages, max_facts) ==
    LET facts == extract_facts_from_messages(messages, max_facts)
    IN Join([k \in 1..Len(facts) |-> <<"- ">> \o facts[k]], <<"\n">>)

MIN_QUESTION_LENGTH == 20
MIN_CONTENT_LENGTH == 50
MIN_SENTENCE_LENGTH == 30
MAX_EXTRACT_LENGTH == 150
MaxSummaryItems == 3

\* str::split('.')
RECURSIVE SplitDot(_)
SplitDot(t) ==
    LET dots == { k \in 1..Len(t) : t[k] = "." }
    IN IF dots = {} THEN <<t>>
       ELSE LET k == CHOOSE x \in dots : \A y \in dots : x <= y
            IN <<SubSeq(t, 1, k - 1)>> \o SplitDot(SubSeq(t, k + 1, Len(t)))

PushNew(seq, x) == IF Contains(seq, x) THEN seq ELSE Append(seq, x)

\* summarize: the questions among the lines of a user message
RECURSIVE QuestionsIn(_, _)
QuestionsIn(lines, acc) ==
    IF lines = <<>> THEN acc
    ELSE LET line == Trim(Head(lines))
         IN IF line # <<>> /\ line[Len(line)] = "?" /\ ByteLen(line) > MIN_QUESTION_LENGTH
            THEN QuestionsIn(Tail(lines), PushNew(acc, Take(line, MAX_EXTRACT_LENGTH)))
            ELSE QuestionsIn(Tail(lines), acc)

\* summarize: the first long sentence among the first three of an assistant message
RECURSIVE FirstConclusion(_, _)
FirstConclusion(sentences, acc) ==
    IF sentences = <<>> THEN acc
    ELSE LET sentence == Trim(Head(sentences))
         IN IF ByteLen(sentence) > MIN_SENTENCE_LENGTH
            THEN PushNew(acc, Take(sentence, MAX_EXTRACT_LENGTH))
            ELSE FirstConclusion(Tail(sentences), acc)

RECURSIVE SummaryScan(_, _, _)
SummaryScan(messages, questions, conclusions) ==
    IF messages = <<>> THEN [questions |-> questions, conclusions |-> conclusions]
    ELSE LET msg == Head(messages)
             content == Trim(msg.content)
         IN IF content = <<>> THEN SummaryScan(Tail(messages), questions, conclusions)
            ELSE SummaryScan(Tail(messages),
                    IF msg.role = "user" THEN QuestionsIn(Lines(content), questions)
                    ELSE questions,
                    IF msg.role = "assistant" /\ ByteLen(content) > MIN_CONTENT_LENGTH
                    THEN FirstConclusion(Take(SplitDot(content), 3), conclusions)
                    ELSE conclusions)

Bullets(items) == [k \in 1..Len(items) |-> <<"  - ">> \o items[k]]

\* SessionCompactor::summarize
summarize(messages) ==
    LET scan == SummaryScan(messages, <<>>, <<>>)
        parts == (IF scan.questions # <<>>
                  THEN <<<<"User asked about:">>>>
                          \o Bullets(Take(scan.questions, MaxSummaryItems))
                  ELSE <<>>)
                 \o (IF scan.conclusions # <<>>
                     THEN <<<<"Assistant responses:">>>>
                             \o Bullets(Take(scan.conclusions, MaxSummaryItems))
                     ELSE <<>>)
    IN IF parts = <<>> THEN <<"General discussion continued">>
       ELSE Join(parts, <<"\n">>)

SaturatingSub(a, b) == IF a > b THEN a - b ELSE 0

RecallHeader == <<"[Recalling from earlier in our conversation]", "\n", "\n">>

CompactedUncut(messages, cfg) == messages

CompactedAlwaysRecap(messages, cfg) ==
    <<ChatMessage("assistant", RecallHeader)>>
        \o SubSeq(messages,
                  SaturatingSub(Len(messages), cfg.recent_turns_keep * 2) + 1,
                  Len(messages))

\* SessionCompactor::compact, lines 46-86: the history is at or above the threshold
Compacted(messages, cfg) ==
    LET recent_count == cfg.recent_turns_keep * 2
        recent_start == SaturatingSub(Len(messages), recent_count)
        recent == SubSeq(messages, recent_start + 1, Len(messages))
        middle_count == cfg.summary_max_turns * 2
        middle_end == recent_start
        middle_start == SaturatingSub(middle_end, middle_count)
        middle == SubSeq(messages, middle_start + 1, middle_end)
        old == SubSeq(messages, 1, middle_start)
        facts == IF old # <<>> THEN extract_facts(old, cfg.max_facts) ELSE <<>>
        summary == IF middle # <<>> THEN summarize(middle) ELSE <<>>
        recall_parts ==
            (IF facts # <<>> THEN <<<<"Key facts:", "\n">> \o facts>> ELSE <<>>)
            \o (IF summary # <<>>
                THEN <<<<"Recent discussion summary:", "\n">> \o summary>> ELSE <<>>)
        recap == IF recall_parts # <<>>
                 THEN <<ChatMessage("assistant",
                                    RecallHeader \o Join(recall_parts, <<"\n", "\n">>))>>
                 ELSE <<>>
    IN recap \o recent

\* SessionCompactor::compact
compact(messages, cfg) ==
    IF Len(messages) < cfg.threshold THEN messages ELSE Compacted(messages, cfg)

BuildHistoryOffByOne(history, cfg) ==
    IF Len(history) <= cfg.threshold
    THEN [sent |-> history, compacted |-> FALSE]
    ELSE [sent |-> chat_to_messages(compact(messages_to_chat(history), cfg)),
          compacted |-> TRUE]

\* AgentLoop::build_history_for_llm
build_history_for_llm(history, cfg) ==
    IF Len(history) < cfg.threshold
    THEN [sent |-> history, compacted |-> FALSE]
    ELSE [sent |-> chat_to_messages(compact(messages_to_chat(history), cfg)),
          compacted |-> TRUE]

----------------------------------------------------------------------------
(* build_history_for_llm as a function of the history and the configuration *)

TextUsingRust == <<"u", "s", "i", "n", "g", " ", "r", "u", "s", "t">>
TextQuestion == <<"w", "h", "a", "t", " ", "i", "s", " ", "r", "u", "s", "t", " ", "u", "s", "e", "d", " ", "f", "o", "r", "?">>
TextOk == <<"o", "k", ".">>

TurnInputs ==
    { UserMessage(TextUsingRust), UserMessage(TextQuestion), AssistantMessage(TextOk) }

HistoryInputs == UNION { [1..n -> TurnInputs] : n \in 0..MaxHistLen }

ConfigInputs ==
    [threshold : 0..MaxThreshold,
     recent_turns_keep : 0..MaxKeep,
     summary_max_turns : 0..MaxSummaryTurns,
     max_facts : {0, 1, 10}]

\* CompactionConfig::default
DefaultConfig ==
    [threshold |-> 50, recent_turns_keep |-> 8, summary_max_turns |-> 15,
     max_facts |-> 10]

NotBuilt == [sent |-> <<>>, compacted |-> FALSE]

NotScanned == [messages |-> <<>>, facts |-> <<>>]

TextRemember == <<"r", "e", "m", "e", "m", "b", "e", "r", " ", "t", "h", "a", "t", " ", "x">>

\* what precedes the history in a scanned message list
LeadInputs == { <<>>, <<ChatMessage("system", TextRemember)>> }

CompactInit ==
    /\ k_history \in HistoryInputs
    /\ k_cfg \in ConfigInputs
    /\ k_built = NotBuilt
    /\ k_pc = "ready"
    /\ k_scan = NotScanned

CompactIdle ==
    /\ k_history = <<>>
    /\ k_cfg = DefaultConfig
    /\ k_built = NotBuilt
    /\ k_pc = "ready"
    /\ k_scan = NotScanned

BuildHistory ==
    /\ UNCHANGED <<consVars, agentVars, pureVars>>
    /\ k_pc = "ready"
    /\ k_built' = build_history_for_llm(k_history, k_cfg)
    /\ k_pc' = "built"
    /\ UNCHANGED <<k_history, k_cfg, k_scan>>

\* extract_facts_from_messages(messages, max_facts) on the history as chat
\* messages, behind a system message or not
FactScan ==
    /\ UNCHANGED <<consVars, agentVars, pureVars>>
    /\ k_pc = "built"
    /\ \E lead \in LeadInputs :
        LET messages == lead \o messages_to_chat(k_history)
        IN k_scan' = [messages |-> messages,
                      facts |-> extract_facts_from_messages(messages, k_cfg.max_facts)]
    /\ k_pc' = "scanned"
    /\ UNCHANGED <<k_history, k_cfg, k_built>>

CompactNext == BuildHistory \/ FactScan


----------------------------------------------------------------------------
(* The extractor's prompt texts *)

HasChar(t, c) == \E k \in 1..Len(t) : t[k] = c

\* the backtick character
Backtick == "U+0060"

\* sanitize_for_prompt, line 265: a run of three backticks becomes three apostrophes
ReplaceFences(text) ==
    LET RECURSIVE go(_)
        go(t) == IF t = <<>> THEN <<>>
                 ELSE IF Len(t) >= 3 /\ SubSeq(t, 1, 3) = <<Backtick, Backtick, Backtick>>
                      THEN <<"'", "'", "'">> \o go(SubSeq(t, 4, Len(t)))
                      ELSE <<Head(t)>> \o go(Tail(t))
    IN IF HasChar(text, Backtick) THEN go(text) ELSE text

\* sanitized.replace("</", "&lt;/")
ReplaceCloseTags(text) ==
    LET RECURSIVE go(_)
        go(t) == IF t = <<>> THEN <<>>
                 ELSE IF Len(t) >= 2 /\ SubSeq(t, 1, 2) = <<"<", "/">>
                      THEN <<"&", "l", "t", ";", "/">> \o go(SubSeq(t, 3, Len(t)))
                      ELSE <<Head(t)>> \o go(Tail(t))
    IN IF HasChar(text, "<") THEN go(text) ELSE text

\* sanitized.replace('<', "&lt;").replace('>', "&gt;")
ReplaceAngles(text) ==
    IF HasMarkup(text) THEN sanitize_storage_content(text) ELSE text

PromptMaxBytes == 2000
TurnMaxBytes == 500
MinConversationBytes == 50
MinUserMessages == 3
ConversationWindow == 20

\* extractor.rs sanitize_for_prompt
sanitize_for_prompt(text) ==
    LET sanitized == ReplaceAngles(ReplaceCloseTags(ReplaceFences(text)))
    IN IF ByteLen(sanitized) > PromptMaxBytes
       THEN LET cut == truncate(sanitized, PromptMaxBytes)
            IN IF cut.panicked THEN Panicked
               ELSE Returned(cut.value \o <<".", ".", ".">>)
       ELSE Returned(sanitized)

RoleUpper(role) ==
    IF role = "user" THEN <<"U", "S", "E", "R">>
    ELSE IF role = "assistant"
         THEN <<"A", "S", "S", "I", "S", "T", "A", "N", "T">>
         ELSE <<"S", "Y", "S", "T", "E", "M">>

\* format_conversation, the body of the loop for one message
FormatTurn(msg) ==
    LET content == sanitize_for_prompt(msg.content)
    IN IF content.panicked THEN Panicked
       ELSE LET cut == IF ByteLen(content.value) > TurnMaxBytes
                       THEN truncate(content.value, TurnMaxBytes)
                       ELSE content
            IN IF cut.panicked THEN Panicked
               ELSE Returned(RoleUpper(msg.role) \o <<":", " ">> \o cut.value)

\* extractor.rs format_conversation
format_conversation(messages) ==
    LET from == IF Len(messages) > ConversationWindow
                THEN Len(messages) - ConversationWindow + 1 ELSE 1
        window == SubSeq(messages, from, Len(messages))
        shown == SelectSeq(window, LAMBDA m : m.role \in {"user", "assistant"})
        parts == [k \in 1..Len(shown) |-> FormatTurn(shown[k])]
    IN IF \E k \in 1..Len(parts) : parts[k].panicked THEN Panicked
       ELSE Returned(Join([k \in 1..Len(parts) |-> parts[k].value], <<"\n">>))

TrivialWords ==
    { <<"o", "k">>, <<"o", "k", "a", "y">>, <<"y", "e", "s">>, <<"n", "o">>,
      <<"t", "h", "a", "n", "k", "s">>, <<"s", "u", "r", "e">>,
      <<"g", "o", "t", " ", "i", "t">>, <<"c", "o", "o", "l">>,
      <<"n", "i", "c", "e">>, <<"g", "r", "e", "a", "t">>, <<"h", "m", "m">>,
      <<"a", "h">>, <<"o", "h">>, <<"l", "o", "l">>, <<"y", "e", "p">>,
      <<"y", "e", "a", "h">> }

\* the characters of the model that \W or \s matches
NonWordChars ==
    {" ", "\n", "\t", ".", "!", "?", ",", ":", ";", "<", ">", "/", Backtick, "'",
     "&", "-", "[", "]"}

\* MemoryExtractor::new, trivial_patterns, matched against a trimmed text
IsTrivial(trimmed) ==
    \/ \E w \in TrivialWords :
         LET rest == SubSeq(trimmed, Len(w) + 1, Len(trimmed))
             tail == IF rest # <<>> /\ Head(rest) \in {".", "!", "?"}
                     THEN Tail(rest) ELSE rest
         IN /\ Len(trimmed) >= Len(w)
            /\ SubSeq(trimmed, 1, Len(w)) = w
            /\ \A k \in 1..Len(tail) : tail[k] \in Whitespace
    \/ \A k \in 1..Len(trimmed) : trimmed[k] \in NonWordChars

\* extract without the floor on the number of user messages
ExtractStartNoFloor(messages) ==
    LET user_messages == SelectSeq(messages, LAMBDA m : m.role = "user")
        trimmed == IF user_messages = <<>> THEN <<"x">>
                   ELSE Trim(user_messages[Len(user_messages)].content)
        conversation == format_conversation(messages)
    IN IF messages = <<>> \/ trimmed = <<>> \/ IsTrivial(trimmed) THEN "skip"
       ELSE IF conversation.panicked THEN "panic"
            ELSE IF ByteLen(conversation.value) < MinConversationBytes THEN "skip"
                 ELSE IF sanitize_for_prompt(conversation.value).panicked
                      THEN "panic" ELSE "await"

\* MemoryExtractor::extract up to the await of llm_extract: it returns no
\* facts ("skip"), panics, or sends the prompt ("await")
ExtractStart(messages) ==
    IF messages = <<>> THEN "skip"
    ELSE LET user_messages == SelectSeq(messages, LAMBDA m : m.role = "user")
         IN IF Len(user_messages) < MinUserMessages THEN "skip"
            ELSE LET trimmed == Trim(user_messages[Len(user_messages)].content)
                 IN IF trimmed = <<>> \/ IsTrivial(trimmed) THEN "skip"
                    ELSE LET conversation == format_conversation(messages)
                         IN IF conversation.panicked THEN "panic"
                            ELSE IF ByteLen(conversation.value) < MinConversationBytes
                                 THEN "skip"
                                 ELSE IF sanitize_for_prompt(conversation.value).panicked
                                      THEN "panic" ELSE "await"

UserCount(history) == Cardinality({ k \in 1..Len(history) : history[k].kind = "User" })

\* maybe_extract_and_consolidate, lines 557-571: whether extract is called
ExtractionGate(history, memory, interval) ==
    /\ memory
    /\ UserCount(history) # 0
    /\ UserCount(history) % interval = 0

\* maybe_extract_and_consolidate up to the first await
ExtractionStart(history, memory, interval) ==
    IF ExtractionGate(history, memory, interval)
    THEN ExtractStart(messages_to_chat(history)) ELSE "skip"

----------------------------------------------------------------------------
(* MemoryExtractor::extract: the model path and the heuristic fallback *)

\* llm_extract, lines 137-141: the weight of an importance label
ImportanceOfLabel(label) ==
    IF label = "high" THEN Imp(90) ELSE IF label = "low" THEN Imp(30) ELSE Imp(70)

\* llm_extract, lines 131-149, after the response was parsed into raw
LlmFacts(raw, max_facts) ==
    LET taken == Take(raw, max_facts)
    IN [k \in 1..Len(taken) |->
           [content |-> sanitize_storage_content(taken[k].fact),
            importance |-> ImportanceOfLabel(taken[k].importance),
            source |-> "llm"]]

\* heuristic_extract, lines 195-204: the indicator phrases and their weights
HeuristicPatterns ==
    << [indicator |-> <<"m", "y", " ", "n", "a", "m", "e", " ", "i", "s">>, importance |-> 90],
       [indicator |-> <<"i", " ", "a", "m", " ", "a">>, importance |-> 70],
       [indicator |-> <<"i", " ", "w", "o", "r", "k">>, importance |-> 80],
       [indicator |-> <<"i", " ", "l", "i", "v", "e">>, importance |-> 80],
       [indicator |-> <<"i", " ", "p", "r", "e", "f", "e", "r">>, importance |-> 70],
       [indicator |-> <<"i", " ", "l", "i", "k", "e">>, importance |-> 60],
       [indicator |-> <<"i", " ", "u", "s", "e">>, importance |-> 60],
       [indicator |-> <<"c", "a", "l", "l", " ", "m", "e">>, importance |-> 80] >>

\* the separators of a clause, in the order heuristic_extract tries them
ClauseSeparators == <<".", "!", "?", "\n">>

\* the smallest fact text the heuristic keeps has more than this many bytes
MinHeuristicFactLen == 5

\* str::find from position from on: the index of the first match, 0 for None
Find(t, pat, from) ==
    LET hits == { k \in from..(Len(t) - Len(pat) + 1) : SubSeq(t, k, k + Len(pat) - 1) = pat }
    IN IF hits = {} THEN 0 ELSE CHOOSE k \in hits : \A j \in hits : k <= j

\* heuristic_extract, lines 216-220: the index after the clause that starts
\* at start: the position of the first separator of the list that occurs at
\* all after start, or the end of the content
ClauseEnd(content, start) ==
    LET found == SelectSeq([k \in 1..Len(ClauseSeparators) |->
                               Find(content, <<ClauseSeparators[k]>>, start)],
                           LAMBDA pos : pos # 0)
    IN IF found = <<>> THEN Len(content) + 1 ELSE Head(found)

IsWordChar(c) == c \notin NonWordChars

\* Regex::replace_all of \bpat\b, for a pattern that starts and ends with a
\* word character
RECURSIVE ReplaceWord(_, _, _, _)
ReplaceWord(t, k, pat, rep) ==
    IF k > Len(t) THEN <<>>
    ELSE LET last == k + Len(pat) - 1
         IN IF /\ last <= Len(t)
               /\ SubSeq(t, k, last) = pat
               /\ (k = 1 \/ ~IsWordChar(t[k - 1]))
               /\ (last = Len(t) \/ ~IsWordChar(t[last + 1]))
            THEN rep \o ReplaceWord(t, last + 1, pat, rep)
            ELSE <<t[k]>> \o ReplaceWord(t, k + 1, pat, rep)

\* str::replace
RECURSIVE ReplaceAll(_, _, _)
ReplaceAll(t, pat, rep) ==
    IF t = <<>> THEN <<>>
    ELSE IF Len(t) >= Len(pat) /\ SubSeq(t, 1, Len(pat)) = pat
         THEN rep \o ReplaceAll(SubSeq(t, Len(pat) + 1, Len(t)), pat, rep)
         ELSE <<Head(t)>> \o ReplaceAll(Tail(t), pat, rep)

TextUser == <<"U", "s", "e", "r">>

\* extractor.rs THIRD_PERSON_RULES
THIRD_PERSON_RULES ==
    << [re |-> <<"m", "y">>, replacement |-> TextUser \o <<"'", "s">>],
       [re |-> <<"i", " ", "a", "m">>, replacement |-> TextUser \o <<" ", "i", "s">>],
       [re |-> <<"i", "'", "m">>, replacement |-> TextUser \o <<" ", "i", "s">>],
       [re |-> <<"i", " ", "h", "a", "v", "e">>, replacement |-> TextUser \o <<" ", "h", "a", "s">>],
       [re |-> <<"i", "'", "v", "e">>, replacement |-> TextUser \o <<" ", "h", "a", "s">>],
       [re |-> <<"i", " ", "w", "i", "l", "l">>, replacement |-> TextUser \o <<" ", "w", "i", "l", "l">>],
       [re |-> <<"i", "'", "l", "l">>, replacement |-> TextUser \o <<" ", "w", "i", "l", "l">>],
       [re |-> <<"i">>, replacement |-> TextUser] >>

\* extractor.rs to_third_person
to_third_person(text) ==
    LET RECURSIVE apply(_, _)
        apply(t, k) ==
            IF k > Len(THIRD_PERSON_RULES) THEN t
            ELSE apply(ReplaceWord(t, 1, THIRD_PERSON_RULES[k].re,
                                   THIRD_PERSON_RULES[k].replacement), k + 1)
    IN ReplaceAll(apply(text, 1), TextUser \o <<" ">> \o TextUser, TextUser)

\* u8::make_ascii_uppercase on the letters a fact can start with
UpperAscii(c) ==
    CASE c = "c" -> "C"
      [] c = "i" -> "I"
      [] c = "m" -> "M"
      [] OTHER -> c

\* heuristic_extract, lines 223-225: get_mut(0..1) is None when the first
\* character is longer than one byte
CapitalizeFirst(t) ==
    IF t = <<>> \/ Head(t) = WideChar THEN t ELSE <<UpperAscii(Head(t))>> \o Tail(t)

\* heuristic_extract: the facts of one user message, appended to facts
RECURSIVE HeuristicScan(_, _, _)
HeuristicScan(content, k, facts) ==
    IF k > Len(HeuristicPatterns) THEN facts
    ELSE LET start == Find(content, HeuristicPatterns[k].indicator, 1)
             fact_text == Trim(SubSeq(content, start, ClauseEnd(content, start) - 1))
             fact == CapitalizeFirst(to_third_person(fact_text))
         IN IF /\ start # 0
               /\ ByteLen(fact_text) > MinHeuristicFactLen
               /\ \A j \in 1..Len(facts) : facts[j].content # fact
            THEN HeuristicScan(content, k + 1,
                     Append(facts, [content |-> fact,
                                    importance |-> Imp(HeuristicPatterns[k].importance),
                                    source |-> "heuristic"]))
            ELSE HeuristicScan(content, k + 1, facts)

HeuristicAllRoles(messages) ==
    LET RECURSIVE go(_, _)
        go(k, facts) ==
            IF k > Len(messages) THEN facts
            ELSE go(k + 1, HeuristicScan(to_lowercase(messages[k].content), 1, facts))
    IN go(1, <<>>)

\* extractor.rs heuristic_extract
heuristic_extract(messages) ==
    LET RECURSIVE go(_, _)
        go(k, facts) ==
            IF k > Len(messages) THEN facts
            ELSE IF messages[k].role # "user" THEN go(k + 1, facts)
                 ELSE go(k + 1, HeuristicScan(to_lowercase(messages[k].content), 1, facts))
    IN go(1, <<>>)

\* a text of 170 characters of three bytes each
TextWide == [k \in 1..170 |-> WideChar]

\* the messages extract is called with
TextMyName == <<"m", "y", " ", "n", "a", "m", "e", " ", "i", "s", " ", "a", "l", "!", " ",
                "I", " ", "l", "i", "k", "e", " ", "t", "e", "a", ".", " ", "o", "k">>
TextILive == <<"I", "'", "m", " ", "i", "n", " ", "r", "o", "m", "e", ".", " ",
               "i", " ", "l", "i", "v", "e", " ", "i", "n", " ", "m", "y", " ", "v", "a", "n">>
TextSup == <<"s", "u", "p">>
TextNoted == <<"i", " ", "a", "m", " ", "a", " ", "b", "o", "t", ".", " ", "n", "o", "t", "e", "d">>
TextThanksBang == <<"T", "h", "a", "n", "k", "s", "!", " ">>

HeadMessages ==
    { ChatMessage("user", TextMyName), ChatMessage("user", TextILive),
      ChatMessage("user", TextSup), ChatMessage("assistant", TextNoted) }

TailInputs ==
    { <<>>, <<ChatMessage("user", TextMyName)>>, <<ChatMessage("user", TextThanksBang)>>,
      <<ChatMessage("system", TextMyName)>>, <<ChatMessage("user", TextWide)>> }

\* a few leading turns, a run of assistant turns, and at most one more turn
MessagesInputs ==
    { head \o [k \in 1..n |-> ChatMessage("assistant", TextNoted)] \o tail :
        head \in UNION { [1..m -> HeadMessages] : m \in 0..MaxHead },
        n \in {0, MaxFiller - 1, MaxFiller},
        tail \in TailInputs }

MaxFactsInputs == {0, 1, 5}

\* what the completion answers to the extraction prompt, parsed
RawAnswers ==
    { <<>>,
      <<[fact |-> TextNameA, importance |-> "high"]>>,
      <<[fact |-> TextMarkup, importance |-> "low"],
        [fact |-> TextNameAS, importance |-> "urgent"]>> }

ExtractOpened(messages, max_facts) ==
    /\ x_messages = messages
    /\ x_max_facts = max_facts
    /\ x_pc = "ready"
    /\ x_calls = 0
    /\ x_facts = <<>>

ExtractInit ==
    \E messages \in MessagesInputs, max_facts \in MaxFactsInputs :
        ExtractOpened(messages, max_facts)

ExtractIdle == ExtractOpened(<<>>, 5)

\* extract, lines 80-101: up to the await of llm_extract
ExtractBegin ==
    /\ UNCHANGED <<consVars, compactVars, agentVars, fileVars, sideVars>>
    /\ x_pc = "ready"
    /\ LET start == ExtractStart(x_messages)
       IN /\ x_pc' = CASE start = "skip" -> "returned"
                       [] start = "panic" -> "panicked"
                       [] OTHER -> "awaiting"
          /\ x_calls' = IF start = "await" THEN x_calls + 1 ELSE x_calls
    /\ UNCHANGED <<x_messages, x_max_facts, x_facts>>

\* extract, lines 103-106: llm_extract returned Ok
ExtractLlmOk ==
    /\ UNCHANGED <<consVars, compactVars, agentVars, fileVars, sideVars>>
    /\ x_pc = "awaiting"
    /\ \E raw \in RawAnswers :
         x_facts' = Take(LlmFacts(raw, x_max_facts), x_max_facts)
    /\ x_pc' = "returned"
    /\ UNCHANGED <<x_messages, x_max_facts, x_calls>>

\* extract, lines 107-111: the call failed or its text did not parse
ExtractLlmErr ==
    /\ UNCHANGED <<consVars, compactVars, agentVars, fileVars, sideVars>>
    /\ x_pc = "awaiting"
    /\ x_facts' = Take(heuristic_extract(x_messages), x_max_facts)
    /\ x_pc' = "returned"
    /\ UNCHANGED <<x_messages, x_max_facts, x_calls>>

ExtractNext ==
    \/ ExtractBegin
    \/ ExtractLlmOk
    \/ ExtractLlmErr

----------------------------------------------------------------------------
(* MemoryStore: the note files and get_memory_context *)

\* file_store.rs truncate, line 88: the bytes held back for the marker
MarkerReserve == 20

\* get_memory_context, line 53: today's notes need more than this many bytes
MinTodayBudget == 100

\* file_store.rs truncate, line 89: the separators, in the order they are tried
BoundarySeparators == << <<"\n", "\n">>, <<".", "\n">>, <<".", " ">>, <<"\n">> >>

MarkerAfterSeparator ==
    <<"\n", ".", ".", ".", " ", "(", "t", "r", "u", "n", "c", "a", "t", "e", "d", ")">>

MarkerAfterWord ==
    <<" ", ".", ".", ".", " ", "(", "t", "r", "u", "n", "c", "a", "t", "e", "d", ")">>

MarkerHardCut ==
    <<".", ".", ".", " ", "(", "t", "r", "u", "n", "c", "a", "t", "e", "d", ")">>

LongTermHeader ==
    <<"#", "#", " ", "L", "o", "n", "g", "-", "t", "e", "r", "m", " ",
      "M", "e", "m", "o", "r", "y", "\n">>

TodayHeader ==
    <<"#", "#", " ", "T", "o", "d", "a", "y", "'", "s", " ", "N", "o", "t", "e", "s", "\n">>

\* str::rfind: the character index of the last match, 0 for None
RFind(t, pat) ==
    LET hits == { k \in 1..(Len(t) - Len(pat) + 1) : SubSeq(t, k, k + Len(pat) - 1) = pat }
    IN IF hits = {} THEN 0 ELSE CHOOSE k \in hits : \A j \in hits : k >= j

\* the byte offset at which the character with index k starts
ByteOffset(t, k) == ByteLen(SubSeq(t, 1, k - 1))

\* file_store.rs truncate, lines 89-95: the first separator of the list whose
\* last occurrence in head lies beyond the middle of head; 0 when there is none
BoundaryCut(head, truncate_at) ==
    LET RECURSIVE try(_)
        try(k) ==
            IF k > Len(BoundarySeparators) THEN 0
            ELSE LET at == RFind(head, BoundarySeparators[k])
                 IN IF at # 0 /\ ByteOffset(head, at) > truncate_at \div 2
                    THEN at + Len(BoundarySeparators[k]) - 1
                    ELSE try(k + 1)
    IN try(1)

\* file_store.rs truncate; content[..truncate_at] panics inside a character
file_truncate(content, max_chars) ==
    IF ByteLen(content) <= max_chars THEN Returned(content)
    ELSE LET truncate_at == SaturatingSub(max_chars, MarkerReserve)
             head == truncate(content, truncate_at)
         IN IF head.panicked THEN Panicked
            ELSE LET cut == BoundaryCut(head.value, truncate_at)
                     space == RFind(head.value, <<" ">>)
                 IN IF cut # 0
                    THEN Returned(SubSeq(content, 1, cut) \o MarkerAfterSeparator)
                    ELSE IF /\ space # 0
                            /\ ByteOffset(head.value, space) > truncate_at \div 2
                         THEN Returned(SubSeq(content, 1, space - 1) \o MarkerAfterWord)
                         ELSE Returned(head.value \o MarkerHardCut)

\* get_memory_context, line 44: (max_chars as f64 * 0.6) as usize
long_term_budget(max_chars) == (max_chars * 3) \div 5

\* MemoryStore::get_memory_context over the contents of the two files; beside
\* the text it returns, the excerpts it made of the two files
get_memory_context(long_term, today, max_chars) ==
    LET long == IF long_term # <<>>
                THEN file_truncate(long_term, long_term_budget(max_chars))
                ELSE Returned(<<>>)
        remaining == IF long_term # <<>> /\ ~long.panicked
                     THEN SaturatingSub(max_chars, ByteLen(long.value))
                     ELSE max_chars
        with_today == today # <<>> /\ remaining > MinTodayBudget
        notes == IF with_today THEN file_truncate(today, remaining) ELSE Returned(<<>>)
        parts == (IF long_term # <<>> THEN <<LongTermHeader \o long.value>> ELSE <<>>)
                 \o (IF with_today THEN <<TodayHeader \o notes.value>> ELSE <<>>)
    IN IF long.panicked \/ notes.panicked
       THEN [panicked |-> TRUE, value |-> <<>>, long_term |-> None, today |-> None]
       ELSE [panicked |-> FALSE,
             value |-> Join(parts, <<"\n", "\n">>),
             long_term |-> IF long_term # <<>> THEN Some(long.value) ELSE None,
             today |-> IF with_today THEN Some(notes.value) ELSE None]

\* a note of n characters that repeats a pattern
Repeated(pattern, n) == [k \in 1..n |-> pattern[((k - 1) % Len(pattern)) + 1]]

NoteProse ==
    <<"l", "i", "k", "e", "s", " ", "t", "e", "a", ".", " ", "u", "s", "e", "s", " ",
      "v", "i", "m", ".", "\n", "h", "a", "s", " ", "a", " ", "c", "a", "t", "\n", "\n">>

NoteWords == <<"t", "e", "a", " ", "a", "n", "d", " ", "c", "a", "k", "e", "s", " ">>

NoteCjk == <<WideChar, WideChar, "a", " ", WideChar, ".", " ">>

NoteLengths == {7, 30, MaxNoteLen \div 2, MaxNoteLen}

\* a note of n characters whose only sentence end and only spaces are at its start
NoteLongWord(n) == <<"n", "b", ".", " ", "s", "e", "e", " ">> \o Repeated(<<"a">>, n - 8)

NoteInputs ==
    {<<>>} \cup { Repeated(pattern, n) :
                    pattern \in {NoteProse, NoteWords, NoteCjk, <<"a">>},
                    n \in NoteLengths }
           \cup { NoteLongWord(n) : n \in NoteLengths \ {7} }

BudgetInputs == {0, 10, 24, 25, 50, 100, 170, MaxBudget \div 2, MaxBudget}

NoContext == [panicked |-> FALSE, value |-> <<>>, long_term |-> None, today |-> None]

FileOpened(long_term, today, max_chars) ==
    /\ f_long_term = long_term
    /\ f_today = today
    /\ f_max_chars = max_chars
    /\ f_pc = "ready"
    /\ f_out = NoContext

FileInit ==
    \E long_term \in NoteInputs, today \in NoteInputs, max_chars \in BudgetInputs :
        FileOpened(long_term, today, max_chars)

FileIdle == FileOpened(<<>>, <<>>, 0)

\* a caller reads the memory context
GetMemoryContext ==
    /\ UNCHANGED <<consVars, compactVars, agentVars, extractVars, sideVars>>
    /\ f_pc = "ready"
    /\ f_out' = get_memory_context(f_long_term, f_today, f_max_chars)
    /\ f_pc' = IF f_out'.panicked THEN "panicked" ELSE "returned"
    /\ UNCHANGED <<f_long_term, f_today, f_max_chars>>

\* truncate on its own, applied to a note with the whole budget
TruncateNote ==
    /\ UNCHANGED <<consVars, compactVars, agentVars, extractVars, sideVars>>
    /\ f_pc = "ready"
    /\ LET cut == file_truncate(f_long_term, f_max_chars)
       IN f_out' = [panicked |-> cut.panicked, value |-> cut.value,
                    long_term |-> None, today |-> None]
    /\ f_pc' = IF f_out'.panicked THEN "cut_panicked" ELSE "cut"
    /\ UNCHANGED <<f_long_term, f_today, f_max_chars>>

FileNext == GetMemoryContext \/ TruncateNote

----------------------------------------------------------------------------
(* The agent loop: one spawned task per inbound message *)

\* agent/mod.rs append_text_history
append_text_history(history, user_text, assistant_text) ==
    LET with_user == IF Trim(user_text) # <<>>
                     THEN Append(history, UserMessage(user_text)) ELSE history
    IN IF Trim(assistant_text) # <<>>
       THEN Append(with_user, AssistantMessage(assistant_text)) ELSE with_user

StoredAfterTurnFromSent(stored, sent, user_text, assistant_text) ==
    append_text_history(sent, user_text, assistant_text)

\* process_message, the Ok arm: what the turn leaves in the stored history
StoredAfterTurn(stored, sent, user_text, assistant_text) ==
    append_text_history(stored, user_text, assistant_text)

HistoryLockIgnored(entry) == TRUE

\* history.lock().await goes through when nobody holds the session's mutex
HistoryLockFree(entry) == entry.holder = 0

\* the error arm's reply
ErrorReply(err) == <<"Sorry, I encountered an error: ">> \o err

TextHello == <<"h", "e", "l", "l", "o", " ", "t", "h", "e", "r", "e">>
TextThanks == <<"t", "h", "a", "n", "k", "s">>
TextBlank == <<" ", " ">>
TextLongAscii == [k \in 1..510 |-> "a"]
TextAllFailed == <<"All provider/model attempts failed">>

\* an inbound message and what its environment answers: the completion
\* (None: every route failed) and the outcome of extract when it is awaited
Turn(session, sender_id, content, completion, extraction) ==
    [session |-> session, sender_id |-> sender_id, content |-> content,
     completion |-> completion, extraction |-> extraction, paced |-> FALSE]

\* a message its sender writes once every earlier message has been handled
Paced(turn) == [turn EXCEPT !.paced = TRUE]

Script(turns, memory, interval, persisted, facts) ==
    [turns |-> turns, memory |-> memory, interval |-> interval,
     persisted |-> persisted, facts |-> facts]

UserTurn(session, content) == Turn(session, "user", content, Some(TextOk), "none")

\* one session long enough to pass the default compaction threshold
ScriptLong ==
    Script([k \in 1..LongSessionTurns |->
                IF k + 1 < LongSessionTurns
                THEN Paced(UserTurn("s1", TextUsingRust))
                ELSE UserTurn("s1", TextUsingRust)],
           FALSE, 1, <<>>, <<>>)

\* two sessions, a cron turn, a failed completion, blank texts
ScriptConcurrent ==
    Script(<<UserTurn("s1", TextHello),
             UserTurn("s2", TextQuestion),
             Turn("s1", "cron", TextUsingRust, Some(TextOk), "none"),
             Turn("s1", "user", TextBlank, None, "none"),
             Turn("s2", "user", TextThanks, Some(TextBlank), "none"),
             Turn("s1", "cron", TextHello, None, "none")>>,
           TRUE, 2, <<>>, <<>>)

\* the third user turn of a session reaches extraction and consolidation
ScriptMemory(persisted, facts) ==
    Script(<<UserTurn("s1", TextHello), UserTurn("s1", TextUsingRust),
             Turn("s1", "user", TextQuestion, Some(TextOk), "facts")>>,
           TRUE, 3, persisted, facts)

ScriptsMemory ==
    { ScriptMemory(PersistedFull, <<FactPadded>>),
      ScriptMemory(PersistedFull, <<FactShort, FactNameAS, FactShort>>),
      ScriptMemory(<<>>, <<FactNameA, FactNameA>>) }

\* extraction finds nothing, or its provider never answers
ScriptsQuiet ==
    { Script(<<UserTurn("s1", TextHello), UserTurn("s2", TextHello),
               UserTurn("s1", first), UserTurn("s1", TextUsingRust),
               Turn("s1", "user", TextQuestion, Some(TextOk), extraction),
               UserTurn(last, TextHello)>>,
             TRUE, 1, <<>>, <<>>) :
        first \in {TextLongAscii, TextThanks}, extraction \in {"none", "hang"},
        last \in Namespaces }

\* a turn longer than 500 bytes whose byte 500 lies inside a character
ScriptsWide ==
    { Script(<<UserTurn("s1", a), UserTurn("s1", b), UserTurn("s1", c),
               UserTurn("s1", TextHello)>>,
             TRUE, interval, <<>>, <<>>) :
        a \in {TextWide, TextHello}, b \in {TextHello}, c \in {TextWide, TextUsingRust},
        interval \in {1, 3} }

\* a message of blanks between the user turns of a session
ScriptsBlank ==
    { Script(<<Paced(UserTurn("s1", TextHello)),
               Paced(UserTurn("s1", TextUsingRust)),
               Paced(UserTurn("s1", TextBlank)),
               Paced(Turn("s1", "cron", TextQuestion, Some(TextOk), "none")),
               UserTurn("s2", TextHello),
               UserTurn("s1", TextHello)>>,
             TRUE, interval, <<>>, <<>>) : interval \in {2, 4} }

Scripts ==
    {ScriptLong, ScriptConcurrent} \cup ScriptsMemory \cup ScriptsQuiet \cup ScriptsWide
        \cup ScriptsBlank

\* a task: where it is, and while it runs the history it read, the history
\* it sent and the history it left
NoTask ==
    [pc |-> "queued", read |-> <<>>, sent |-> <<>>, compacted |-> FALSE,
     after |-> <<>>]

\* "done": process_message returned None; "published": its message was sent;
\* "panicked": the task unwound
Terminal == {"done", "published", "panicked"}

\* a task that ended: only how it ended is kept
Ended(pc) == [NoTask EXCEPT !.pc = pc]

NoEntry == [present |-> FALSE, holder |-> 0, messages |-> <<>>]

TaskIds == 1..Len(a_tasks)

InFlight == { t \in TaskIds : a_tasks[t].pc \notin {"queued"} \cup Terminal }

AgentOpened(script) ==
    /\ a_script = script
    /\ a_tasks = [t \in 1..Len(script.turns) |-> NoTask]
    /\ a_histories = [s \in Namespaces |-> NoEntry]
    /\ a_mapHolder = 0
    /\ a_outbound = <<>>
    /\ a_extracts = <<>>

AgentIdle == AgentOpened(Script(<<>>, FALSE, 1, <<>>, <<>>))

TurnOf(t) == a_script.turns[t]

SetPc(t, pc) == a_tasks' = [a_tasks EXCEPT ![t].pc = pc]

\* AgentLoop::run: consume_inbound hands over the next message, a task is spawned
Spawn(t) ==
    /\ UNCHANGED <<consVars, compactVars, pureVars>>
    /\ a_tasks[t].pc = "queued"
    /\ \A u \in 1..(t - 1) : a_tasks[u].pc # "queued"
    /\ Cardinality(InFlight) < MaxInFlight
    /\ TurnOf(t).paced => InFlight = {}
    /\ SetPc(t, "spawned")
    /\ UNCHANGED <<a_script, a_histories, a_mapHolder, a_outbound, a_extracts>>

\* process_message, line 150: self.histories.lock().await
LockMap(t) ==
    /\ UNCHANGED <<consVars, compactVars, pureVars>>
    /\ a_tasks[t].pc = "spawned"
    /\ a_mapHolder = 0
    /\ a_mapHolder' = t
    /\ SetPc(t, "map_locked")
    /\ UNCHANGED <<a_script, a_histories, a_outbound, a_extracts>>

HasEntry(map, key) == map[key].present

\* map.entry(session_key).or_insert_with(..)
EntryOrInsert(map, key) ==
    IF HasEntry(map, key) THEN map
    ELSE [map EXCEPT ![key] = [NoEntry EXCEPT !.present = TRUE]]

MapGuardKept(t) == t

\* process_message, line 154: the block ends and the guard of the map is dropped
MapGuardDropped(t) == 0

\* process_message, lines 151-154: the entry is cloned, the map guard dropped
CloneEntry(t) ==
    /\ UNCHANGED <<consVars, compactVars, pureVars>>
    /\ a_tasks[t].pc = "map_locked"
    /\ a_histories' = EntryOrInsert(a_histories, TurnOf(t).session)
    /\ a_mapHolder' = MapGuardDropped(t)
    /\ SetPc(t, "want_history")
    /\ UNCHANGED <<a_script, a_outbound, a_extracts>>

\* process_message, lines 156-166: the session's mutex is taken, the prompt and
\* the history for the provider are built, the completion is awaited
LockHistory(t) ==
    /\ UNCHANGED <<consVars, compactVars, pureVars>>
    /\ a_tasks[t].pc = "want_history"
    /\ LET s == TurnOf(t).session
           entry == a_histories[s]
           built == build_history_for_llm(entry.messages, DefaultConfig)
       IN /\ HistoryLockFree(entry)
          /\ a_histories' = [a_histories EXCEPT ![s].holder = t]
          /\ a_tasks' = [a_tasks EXCEPT ![t] =
                [@ EXCEPT !.pc = "prompting", !.read = entry.messages,
                          !.sent = built.sent, !.compacted = built.compacted]]
    /\ UNCHANGED <<a_script, a_mapHolder, a_outbound, a_extracts>>

\* process_message returns: the guard of the session's mutex is dropped
Release(map, s, messages) ==
    [map EXCEPT ![s] = [@ EXCEPT !.holder = 0, !.messages = messages]]

\* a cron turn never answers, whatever its completion
ReturnPcCronSilent(t, ok) ==
    IF TurnOf(t).sender_id = "cron" THEN "done" ELSE "publishing"

\* every turn answers
ReturnPcAlways(t, ok) == "publishing"

\* where a turn goes once process_message returns
ReturnPc(t, ok) ==
    IF ok /\ TurnOf(t).sender_id = "cron" THEN "done" ELSE "publishing"

\* the task once process_message returned
Returning(t, ok, stored) ==
    IF ReturnPc(t, ok) = "done" THEN Ended("done")
    ELSE [a_tasks[t] EXCEPT !.pc = "publishing", !.after = stored]

\* a call extractor.extract(&messages_to_chat(history)) made for a session
ExtractCall(session, history) == [session |-> session, history |-> history]

\* process_message, lines 169-205, up to the first await of the memory pipeline
CompletionOk(t) ==
    /\ UNCHANGED <<consVars, compactVars, pureVars>>
    /\ a_tasks[t].pc = "prompting"
    /\ IsSome(TurnOf(t).completion)
    /\ LET s == TurnOf(t).session
           text == Unwrap(TurnOf(t).completion)
           stored == StoredAfterTurn(a_histories[s].messages, a_tasks[t].sent,
                                     TurnOf(t).content, text)
           start == ExtractionStart(stored, a_script.memory, a_script.interval)
       IN /\ a_extracts' =
                IF ExtractionGate(stored, a_script.memory, a_script.interval)
                THEN Append(a_extracts, ExtractCall(s, stored))
                ELSE a_extracts
          /\ CASE start = "skip" ->
                 /\ a_histories' = Release(a_histories, s, stored)
                 /\ a_tasks' = [a_tasks EXCEPT ![t] = Returning(t, TRUE, stored)]
            [] start = "panic" ->
                 /\ a_histories' = Release(a_histories, s, stored)
                 /\ a_tasks' = [a_tasks EXCEPT ![t] = Ended("panicked")]
            [] OTHER ->
                 /\ a_histories' = [a_histories EXCEPT ![s].messages = stored]
                 /\ a_tasks' = [a_tasks EXCEPT ![t] =
                        [@ EXCEPT !.pc = "extracting", !.after = stored]]
    /\ UNCHANGED <<a_script, a_mapHolder, a_outbound>>

\* process_message, lines 206-217: every route failed
CompletionErr(t) ==
    /\ UNCHANGED <<consVars, compactVars, pureVars>>
    /\ a_tasks[t].pc = "prompting"
    /\ ~IsSome(TurnOf(t).completion)
    /\ LET s == TurnOf(t).session
       IN /\ a_histories' = Release(a_histories, s, a_histories[s].messages)
          /\ a_tasks' = [a_tasks EXCEPT ![t] =
                Returning(t, FALSE, a_histories[s].messages)]
    /\ UNCHANGED <<a_script, a_mapHolder, a_outbound, a_extracts>>

\* maybe_extract_and_consolidate, lines 573-576: extract returned no facts
ExtractedNothing(t) ==
    /\ UNCHANGED <<consVars, compactVars, pureVars>>
    /\ a_tasks[t].pc = "extracting"
    /\ TurnOf(t).extraction = "none"
    /\ LET s == TurnOf(t).session
       IN a_histories' = Release(a_histories, s, a_histories[s].messages)
    /\ a_tasks' = [a_tasks EXCEPT ![t] = Returning(t, TRUE, a_tasks[t].after)]
    /\ UNCHANGED <<a_script, a_mapHolder, a_outbound, a_extracts>>

\* one namespace for every session
SharedNamespace(turn) == "s2"

\* process_message, lines 148 and 157: the namespace of a turn is its session
\* key, channel:chat_id
SessionNamespace(turn) == turn.session

\* maybe_extract_and_consolidate, line 577: extract returned facts, consolidate
\* is called with them and the session key
ExtractedFacts(t) ==
    /\ UNCHANGED <<compactVars, pureVars>>
    /\ a_tasks[t].pc = "extracting"
    /\ TurnOf(t).extraction = "facts"
    /\ a_script.facts # <<>>
    /\ c_pc = "idle"
    /\ c_facts' = a_script.facts
    /\ c_ns' = SessionNamespace(TurnOf(t))
    /\ c_pc' = "loop"
    /\ c_i' = 1
    /\ c_similar' = <<>>
    /\ c_valid' = <<>>
    /\ c_result' = NoResult
    /\ c_results' = <<>>
    /\ c_trace' = <<>>
    /\ SetPc(t, "consolidating")
    /\ UNCHANGED <<store, nextId, otherAdds>>
    /\ UNCHANGED <<a_script, a_histories, a_mapHolder, a_outbound, a_extracts>>

\* maybe_extract_and_consolidate, line 577: consolidate returned, its results
\* are dropped
Consolidated(t) ==
    /\ UNCHANGED <<compactVars, pureVars>>
    /\ a_tasks[t].pc = "consolidating"
    /\ c_pc = "done"
    /\ c_pc' = "idle"
    /\ LET s == TurnOf(t).session
       IN a_histories' = Release(a_histories, s, a_histories[s].messages)
    /\ a_tasks' = [a_tasks EXCEPT ![t] = Returning(t, TRUE, a_tasks[t].after)]
    /\ UNCHANGED <<store, nextId, otherAdds, c_facts, c_ns, c_i, c_similar, c_valid,
                   c_result, c_results, c_trace>>
    /\ UNCHANGED <<a_script, a_mapHolder, a_outbound, a_extracts>>

OutboundMessage(session, content) == [session |-> session, content |-> content]

\* AgentLoop::run, lines 126-128: the task publishes what process_message returned
Publish(t) ==
    /\ UNCHANGED <<consVars, compactVars, pureVars>>
    /\ a_tasks[t].pc = "publishing"
    /\ a_outbound' = Append(a_outbound,
            OutboundMessage(TurnOf(t).session,
                            IF IsSome(TurnOf(t).completion)
                            THEN Unwrap(TurnOf(t).completion)
                            ELSE ErrorReply(TextAllFailed)))
    /\ a_tasks' = [a_tasks EXCEPT ![t] = Ended("published")]
    /\ UNCHANGED <<a_script, a_histories, a_mapHolder, a_extracts>>

AgentInit == \E script \in Scripts : AgentOpened(script) /\ ConsOpened(script.persisted)

AgentNext ==
    \/ \E t \in TaskIds : Spawn(t)
    \/ \E t \in TaskIds : LockMap(t)
    \/ \E t \in TaskIds : CloneEntry(t)
    \/ \E t \in TaskIds : LockHistory(t)
    \/ \E t \in TaskIds : CompletionOk(t)
    \/ \E t \in TaskIds : CompletionErr(t)
    \/ \E t \in TaskIds : ExtractedNothing(t)
    \/ \E t \in TaskIds : ExtractedFacts(t)
    \/ \E t \in TaskIds : Consolidated(t)
    \/ \E t \in TaskIds : Publish(t)
    \/ LoopHead
    \/ Search
    \/ LlmDecide
    \/ Execute
    \/ ExecuteFallbackAdd
    \/ ExecuteReplacementAdd
    \/ OtherSessionAdd

----------------------------------------------------------------------------
(* AgentLoop::prompt_with_fallback: the routes and the retries on a route *)

\* agent/mod.rs, line 38
PER_ROUTE_MAX_RETRIES == 2

\* agent/mod.rs classify_failure: the first class one of whose marks occurs in
\* the lower-cased message
classify_failure(message) ==
    LET lower == to_lowercase(message)
        has(mark) == ContainsText(lower, mark)
    IN IF \/ has(<<"4", "2", "9">>)
             \/ has(<<"r", "a", "t", "e", " ", "l", "i", "m", "i", "t">>)
       THEN "rate_limit"
       ELSE
       IF \/ has(<<"t", "i", "m", "e", "o", "u", "t">>)
             \/ has(<<"t", "i", "m", "e", "d", " ", "o", "u", "t">>)
             \/ has(<<"d", "e", "a", "d", "l", "i", "n", "e">>)
       THEN "timeout"
       ELSE
       IF \/ has(<<"5", "0", "2">>)
             \/ has(<<"5", "0", "3">>)
             \/ has(<<"5", "0", "4">>)
             \/ has(<<"c", "o", "n", "n", "e", "c", "t", "i", "o", "n", " ", "r", "e", "s", "e", "t">>)
             \/ has(<<"t", "e", "m", "p", "o", "r", "a", "r", "i", "l", "y", " ", "u", "n", "a", "v", "a", "i", "l", "a", "b", "l", "e">>)
       THEN "upstream"
       ELSE
       IF \/ has(<<"4", "0", "1">>)
             \/ has(<<"4", "0", "3">>)
             \/ has(<<"u", "n", "a", "u", "t", "h", "o", "r", "i", "z", "e", "d">>)
       THEN "auth"
       ELSE
       IF \/ has(<<"4", "0", "0">>)
             \/ has(<<"i", "n", "v", "a", "l", "i", "d", " ", "r", "e", "q", "u", "e", "s", "t">>)
             \/ has(<<"i", "n", "v", "a", "l", "i", "d", " ", "m", "o", "d", "e", "l">>)
             \/ has(<<"n", "o", "t", " ", "f", "o", "u", "n", "d">>)
       THEN "request"
       ELSE
       "unknown"

\* agent/mod.rs should_retry_same_route
should_retry_same_route(class, attempt) ==
    IF attempt >= PER_ROUTE_MAX_RETRIES THEN FALSE
    ELSE class \in {"rate_limit", "timeout", "upstream"}

\* the error texts a provider call fails with
ErrorMessages ==
    { <<"H", "T", "T", "P", " ", "4", "2", "9">>,
      <<"T", "i", "m", "e", "d", " ", "o", "u", "t">>,
      <<"B", "a", "d", " ", "G", "a", "t", "e", "w", "a", "y", " ", "5", "0", "2">>,
      <<"4", "0", "1", " ", "U", "n", "a", "u", "t", "h", "o", "r", "i", "z", "e", "d">>,
      <<"m", "o", "d", "e", "l", " ", "n", "o", "t", " ", "f", "o", "u", "n", "d">>,
      <<"4", "0", "1", " ", "a", "f", "t", "e", "r", " ", "4", "2", "9">>,
      <<"b", "o", "o", "m">> }

TextPrompt == <<"h", "i">>

\* what a provider call that fails may have pushed to the history it was given
PartialGrowth == { <<>>, <<UserMessage(TextPrompt)>> }

\* what a provider call that succeeds pushed to it
FullGrowth(text) == <<UserMessage(TextPrompt), AssistantMessage(text)>>

SentHistoryInputs == { <<>>, <<UserMessage(TextHello), AssistantMessage(TextOk)>> }

RouteInputs == { [k \in 1..n |-> k] : n \in 0..MaxRoutes }

NoRoutesConfigured == [ok |-> FALSE, kind |-> "no_routes", errors |-> <<>>]
AllAttemptsFailed(errors) == [ok |-> FALSE, kind |-> "all_failed", errors |-> errors]
Completed(text, temp_history, route) ==
    [ok |-> TRUE, text |-> text, temp_history |-> temp_history, route |-> route]
NotReturned == [ok |-> FALSE, kind |-> "pending", errors |-> <<>>]

FallbackOpened(routes, history) ==
    /\ p_routes = routes
    /\ p_history = history
    /\ p_pc = "ready"
    /\ p_route = 0
    /\ p_attempt = 0
    /\ p_temp = <<>>
    /\ p_errors = <<>>
    /\ p_log = <<>>
    /\ p_result = NotReturned

FallbackInit ==
    \E routes \in RouteInputs, history \in SentHistoryInputs : FallbackOpened(routes, history)

FallbackIdle == FallbackOpened(<<>>, <<>>)

\* the history of the previous attempt is carried into the next one
CarriedOver(history, temp) == IF temp = <<>> THEN history ELSE temp

\* prompt_with_fallback, line 230: temp_history = history_for_llm.to_vec()
FreshCopy(history, temp) == history

\* a provider call and how it ended: "pending", "ok" or the class of its failure
CallRecord(route, attempt, temp) ==
    [route |-> route, attempt |-> attempt, temp |-> temp, outcome |-> "pending"]

Ended_call(log, outcome) == [log EXCEPT ![Len(log)].outcome = outcome]

\* lines 230-234: an iteration of the inner loop up to the await of the call
StartAttempt(route, attempt, temp, log) ==
    /\ p_route' = route
    /\ p_attempt' = attempt
    /\ p_temp' = FreshCopy(p_history, temp)
    /\ p_log' = Append(log, CallRecord(route, attempt, p_temp'))
    /\ p_pc' = "awaiting"

\* prompt_with_fallback is called: without routes it returns at once
CallFallback ==
    /\ UNCHANGED <<consVars, compactVars, agentVars, extractVars, fileVars, cronVars>>
    /\ p_pc = "ready"
    /\ IF p_routes = <<>>
       THEN /\ p_result' = NoRoutesConfigured
            /\ p_pc' = "returned"
            /\ UNCHANGED <<p_route, p_attempt, p_temp, p_log>>
       ELSE /\ StartAttempt(1, 0, p_temp, p_log)
            /\ UNCHANGED p_result
    /\ UNCHANGED <<p_routes, p_history, p_errors>>

\* line 236: the call answered with a text
AttemptOk ==
    /\ UNCHANGED <<consVars, compactVars, agentVars, extractVars, fileVars, cronVars>>
    /\ p_pc = "awaiting"
    /\ p_temp' = p_temp \o FullGrowth(TextOk)
    /\ p_result' = Completed(TextOk, p_temp', p_routes[p_route])
    /\ p_log' = Ended_call(p_log, "ok")
    /\ p_pc' = "returned"
    /\ UNCHANGED <<p_routes, p_history, p_route, p_attempt, p_errors>>

\* lines 237-263: the call failed; the route is retried after a backoff, or its
\* error is recorded and the next route, if any, is tried
AttemptErr ==
    /\ UNCHANGED <<consVars, compactVars, agentVars, extractVars, fileVars, cronVars>>
    /\ p_pc = "awaiting"
    /\ \E msg \in ErrorMessages, grown \in PartialGrowth :
          LET class == classify_failure(msg)
              log == Ended_call(p_log, class)
              errors == Append(p_errors, [route |-> p_routes[p_route],
                                          class |-> class, msg |-> msg])
          IN IF should_retry_same_route(class, p_attempt)
             THEN /\ p_pc' = "sleeping"
                  /\ p_temp' = p_temp \o grown
                  /\ p_log' = log
                  /\ UNCHANGED <<p_route, p_attempt, p_errors, p_result>>
             ELSE /\ p_errors' = errors
                  /\ IF p_route < Len(p_routes)
                     THEN /\ StartAttempt(p_route + 1, 0, p_temp \o grown, log)
                          /\ UNCHANGED p_result
                     ELSE /\ p_result' = AllAttemptsFailed(errors)
                          /\ p_pc' = "returned"
                          /\ p_temp' = p_temp \o grown
                          /\ p_log' = log
                          /\ UNCHANGED <<p_route, p_attempt>>
    /\ UNCHANGED <<p_routes, p_history>>

\* lines 251-254: the backoff sleep is over, the same route is tried again
BackoffOver ==
    /\ UNCHANGED <<consVars, compactVars, agentVars, extractVars, fileVars, cronVars>>
    /\ p_pc = "sleeping"
    /\ StartAttempt(p_route, p_attempt + 1, p_temp, p_log)
    /\ UNCHANGED <<p_routes, p_history, p_errors, p_result>>

\* lines 231-234: nothing bounds the await of the call; the provider keeps the
\* connection open and never answers
AttemptHangs ==
    /\ UNCHANGED <<consVars, compactVars, agentVars, extractVars, fileVars, cronVars>>
    /\ p_pc = "awaiting"
    /\ p_pc' = "hung"
    /\ UNCHANGED <<p_routes, p_history, p_route, p_attempt, p_temp, p_errors, p_log,
                   p_result>>

FallbackNext ==
    \/ CallFallback
    \/ AttemptOk
    \/ AttemptErr
    \/ BackoffOver
    \/ AttemptHangs


----------------------------------------------------------------------------
(* CronService: the scheduler, the tool and the command line over cron.json *)

MsPerSecond == 1000

\* the schedule arguments of add_job
SchedEveryTick == <<"*", " ", "*">>
SchedOnce == <<"2", " ", "*">>
SchedBadCron == <<"@", "x">>
SchedZero == <<"0">>
SchedOne == <<"1">>
SchedWord == <<"x">>

Digits == <<"0", "1", "2", "3", "4", "5", "6", "7", "8", "9">>

DigitValue(c) == (CHOOSE k \in 1..10 : Digits[k] = c) - 1

\* str::parse::<u64> of a text of digits; None for any other text
ParseU64(t) ==
    LET RECURSIVE value(_)
        value(k) == IF k = 0 THEN 0 ELSE value(k - 1) * 10 + DigitValue(t[k])
    IN IF t # <<>> /\ \A k \in 1..Len(t) : \E d \in 1..10 : Digits[d] = t[k]
       THEN Some(value(Len(t))) ELSE None

\* Schedule::from_str(expr) and the times, in milliseconds, at which the
\* schedule fires: every second, once at second 2, or no schedule at all
ScheduleFromStr(expr) ==
    IF expr = SchedEveryTick
    THEN Some({ k * MsPerSecond : k \in 0..(MaxTicks + 2) })
    ELSE IF expr = SchedOnce THEN Some({2 * MsPerSecond})
    ELSE None

MinOf(S) == CHOOSE x \in S : \A y \in S : x <= y

\* cron/mod.rs compute_next_run
compute_next_run(schedule, now_ms) ==
    CASE schedule.kind = "at" ->
            IF IsSome(schedule.at_ms) /\ Unwrap(schedule.at_ms) > now_ms
            THEN schedule.at_ms ELSE None
      [] schedule.kind = "every" ->
            IF IsSome(schedule.every_ms)
            THEN Some(now_ms + Unwrap(schedule.every_ms)) ELSE None
      [] schedule.kind = "cron" ->
            IF IsSome(schedule.expr) /\ IsSome(ScheduleFromStr(Unwrap(schedule.expr)))
            THEN LET later == { t \in Unwrap(ScheduleFromStr(Unwrap(schedule.expr))) :
                                  t > now_ms }
                 IN IF later # {} THEN Some(MinOf(later)) ELSE None
            ELSE None
      [] OTHER -> None

CronSchedule(kind, at_ms, every_ms, expr) ==
    [kind |-> kind, at_ms |-> at_ms, every_ms |-> every_ms, expr |-> expr]

CronJob(id, enabled, schedule, channel, to, next_run_at_ms) ==
    [id |-> id, enabled |-> enabled, schedule |-> schedule,
     payload |-> [message |-> id, channel |-> channel, to |-> to],
     state |-> [next_run_at_ms |-> next_run_at_ms]]

\* add_job, lines 214-224: the schedule argument becomes a CronSchedule, or an error
ParseSchedule(schedule) ==
    IF (schedule # <<>> /\ schedule[1] = "@") \/ ContainsText(schedule, <<" ", "*">>)
    THEN Some(CronSchedule("cron", None, None, Some(schedule)))
    ELSE IF IsSome(ParseU64(schedule))
         THEN Some(CronSchedule("every", None,
                                Some(Unwrap(ParseU64(schedule)) * MsPerSecond), None))
         ELSE None

\* add_job, lines 226-258: the job that is pushed to the store
NewJob(id, sched, channel, to, now) ==
    CronJob(id, TRUE, sched, channel, to, compute_next_run(sched, now))

\* CronStore::remove, line 51: jobs.retain(|j| j.id != id)
Retain(jobs, id) ==
    LET RECURSIVE keep(_)
        keep(k) == IF k = 0 THEN <<>>
                   ELSE IF jobs[k].id = id THEN keep(k - 1)
                        ELSE Append(keep(k - 1), jobs[k])
    IN keep(Len(jobs))

\* process_due_jobs, lines 142-150: the test of a job against the clock
IsDue(job, now) ==
    /\ job.enabled
    /\ IsSome(job.state.next_run_at_ms)
    /\ now >= Unwrap(job.state.next_run_at_ms)

\* process_due_jobs, lines 157-172: the message published for a job
InboundOf(job) ==
    [channel |-> IF IsSome(job.payload.channel) THEN Unwrap(job.payload.channel)
                 ELSE "cron",
     chat_id |-> IF IsSome(job.payload.to) THEN Unwrap(job.payload.to) ELSE "direct",
     sender_id |-> "cron",
     content |-> job.payload.message]

\* process_due_jobs, lines 176-191: the job once it has fired; of its state
\* the model keeps next_run_at_ms, the one field the scheduler reads
Fired(job, now) ==
    IF job.schedule.kind = "at"
    THEN [job EXCEPT !.enabled = FALSE, !.state.next_run_at_ms = None]
    ELSE [job EXCEPT !.state.next_run_at_ms = compute_next_run(job.schedule, now)]

\* a published message, with the job it was published for, the due time the
\* job had and the time of the pass
Firing(job, now) ==
    [msg |-> InboundOf(job), job |-> job.id,
     due |-> Unwrap(job.state.next_run_at_ms), at |-> now]

\* the files the service may find when it starts: no file, a one-shot job,
\* a recurring job next to a disabled one whose time has come
CronFileInputs ==
    { <<>>,
      <<CronJob(1, TRUE, CronSchedule("at", Some(MsPerSecond), None, None),
                None, None, Some(MsPerSecond))>>,
      <<CronJob(1, TRUE, CronSchedule("every", None, Some(MsPerSecond), None),
                Some("telegram"), Some("42"), Some(MsPerSecond)),
        CronJob(2, FALSE, CronSchedule("every", None, Some(MsPerSecond), None),
                None, None, Some(0))>> }

\* the ids of the jobs added while the model runs start here
FirstNewId == MaxFileJobs + 1

ToolSchedules == {SchedZero, SchedEveryTick}
CliSchedules == {SchedOne, SchedOnce, SchedBadCron, SchedWord}

Instances == {"scheduler", "cli"}

JobIds(jobs) == { jobs[k].id : k \in 1..Len(jobs) }

CronOpened(file) ==
    /\ q_file = file
    /\ q_mem = [i \in Instances |-> <<>>]
    /\ q_pc = [i \in Instances |-> IF i = "scheduler" THEN "new" ELSE "idle"]
    /\ q_arg = <<>>
    /\ q_wake = FALSE
    /\ q_notify = FALSE
    /\ q_now = 0
    /\ q_nextId = FirstNewId
    /\ q_inbound = <<>>
    /\ q_removed = {}
    /\ q_added = {}

CronInit == \E file \in CronFileInputs : CronOpened(file)

CronIdle == CronOpened(<<>>)

SideIdle == FallbackIdle /\ CronIdle

OtherThanCron == <<consVars, compactVars, agentVars, extractVars, fileVars, fallbackVars>>

\* the clock moves on
Tick ==
    /\ UNCHANGED OtherThanCron
    /\ q_now < MaxTicks * MsPerSecond
    /\ q_now' = q_now + MsPerSecond
    /\ UNCHANGED <<q_file, q_mem, q_pc, q_arg, q_wake, q_notify, q_nextId, q_inbound,
                   q_removed, q_added>>

\* CronService::start, lines 47-63: the store is loaded, the next runs of the
\* enabled jobs are recomputed and the store is saved
StartService ==
    /\ UNCHANGED OtherThanCron
    /\ q_pc["scheduler"] = "new"
    /\ LET jobs == [k \in 1..Len(q_file) |->
                       IF q_file[k].enabled
                       THEN [q_file[k] EXCEPT !.state.next_run_at_ms =
                                compute_next_run(q_file[k].schedule, q_now)]
                       ELSE q_file[k]]
       IN /\ q_mem' = [q_mem EXCEPT !["scheduler"] = jobs]
          /\ q_file' = jobs
    /\ q_pc' = [q_pc EXCEPT !["scheduler"] = "top"]
    /\ UNCHANGED <<q_arg, q_wake, q_notify, q_now, q_nextId, q_inbound, q_removed,
                   q_added>>

\* the scheduler loop, lines 74-107: the store is reloaded and the next wake
\* computed, then the loop sleeps
LoopReload ==
    /\ UNCHANGED OtherThanCron
    /\ q_pc["scheduler"] = "top"
    /\ q_mem' = [q_mem EXCEPT !["scheduler"] = q_file]
    /\ q_wake' = \E k \in 1..Len(q_file) :
                    q_file[k].enabled /\ IsSome(q_file[k].state.next_run_at_ms)
    /\ q_pc' = [q_pc EXCEPT !["scheduler"] = "sleeping"]
    /\ UNCHANGED <<q_file, q_arg, q_notify, q_now, q_nextId, q_inbound, q_removed,
                   q_added>>

\* lines 115-118: the sleep is cut short by a notification
Notified ==
    /\ UNCHANGED OtherThanCron
    /\ q_pc["scheduler"] = "sleeping"
    /\ q_notify
    /\ q_notify' = FALSE
    /\ q_pc' = [q_pc EXCEPT !["scheduler"] = "top"]
    /\ UNCHANGED <<q_file, q_mem, q_arg, q_wake, q_now, q_nextId, q_inbound, q_removed,
                   q_added>>

\* lines 119-124 with nothing scheduled: the sleep ends and the loop restarts
SleepOver ==
    /\ UNCHANGED OtherThanCron
    /\ q_pc["scheduler"] = "sleeping"
    /\ ~q_wake
    /\ q_pc' = [q_pc EXCEPT !["scheduler"] = "top"]
    /\ UNCHANGED <<q_file, q_mem, q_arg, q_wake, q_notify, q_now, q_nextId, q_inbound,
                   q_removed, q_added>>

\* the jobs of a pass, in the order of the store: each due job fires
FireAll(jobs, now) ==
    [k \in 1..Len(jobs) |-> IF IsDue(jobs[k], now) THEN Fired(jobs[k], now) ELSE jobs[k]]

Firings(jobs, now) ==
    LET RECURSIVE upto(_)
        upto(k) == IF k = 0 THEN <<>>
                   ELSE IF IsDue(jobs[k], now)
                        THEN Append(upto(k - 1), Firing(jobs[k], now))
                        ELSE upto(k - 1)
    IN upto(Len(jobs))

\* process_due_jobs, lines 130-192: the store is reloaded under the mutex, the
\* due jobs are selected and each is published and updated in memory
PassBegin ==
    /\ UNCHANGED OtherThanCron
    /\ q_pc["scheduler"] = "sleeping"
    /\ q_wake
    /\ q_mem' = [q_mem EXCEPT !["scheduler"] = FireAll(q_file, q_now)]
    /\ q_inbound' = Firings(q_file, q_now)
    /\ q_pc' = [q_pc EXCEPT !["scheduler"] = "saving"]
    /\ UNCHANGED <<q_file, q_arg, q_wake, q_notify, q_now, q_nextId, q_removed, q_added>>

\* process_due_jobs, lines 194-198: the store in memory is written to cron.json
PassSave ==
    /\ UNCHANGED OtherThanCron
    /\ q_pc["scheduler"] = "saving"
    /\ q_file' = q_mem["scheduler"]
    /\ q_pc' = [q_pc EXCEPT !["scheduler"] = "top"]
    /\ UNCHANGED <<q_mem, q_arg, q_wake, q_notify, q_now, q_nextId, q_inbound, q_removed,
                   q_added>>

\* the scheduler's instance is not inside process_due_jobs: its mutex is free
\* whenever another task of the process asks for it
MutexFree == q_pc["scheduler"] \in {"top", "sleeping"}

\* the manage_cron tool, action add: add_job on the scheduler's own instance
ToolAdd ==
    /\ UNCHANGED OtherThanCron
    /\ MutexFree
    /\ q_nextId < FirstNewId + MaxAdds
    /\ \E schedule \in ToolSchedules :
          LET sched == ParseSchedule(schedule)
              jobs == Append(q_file, NewJob(q_nextId, Unwrap(sched), Some("telegram"),
                                            Some("42"), q_now))
          IN /\ IsSome(sched)
             /\ q_mem' = [q_mem EXCEPT !["scheduler"] = jobs]
             /\ q_file' = jobs
    /\ q_nextId' = q_nextId + 1
    /\ q_notify' = TRUE
    /\ UNCHANGED <<q_pc, q_arg, q_wake, q_now, q_inbound, q_removed, q_added>>

\* the manage_cron tool, action remove: remove_job on the scheduler's instance
ToolRemove ==
    /\ UNCHANGED OtherThanCron
    /\ MutexFree
    /\ Cardinality(q_removed) < MaxRemoves
    /\ \E id \in 1..(q_nextId - 1) :
          LET jobs == Retain(q_file, id)
              removed == Len(jobs) < Len(q_file)
          IN /\ q_mem' = [q_mem EXCEPT !["scheduler"] = jobs]
             /\ q_file' = IF removed THEN jobs ELSE q_file
             /\ q_notify' = (q_notify \/ removed)
             /\ q_removed' = IF removed THEN q_removed \cup {id} ELSE q_removed
    /\ UNCHANGED <<q_pc, q_arg, q_wake, q_now, q_nextId, q_inbound, q_added>>

\* the command line, another CronService over the same file: add_job, line 210
CliAddLoad ==
    /\ UNCHANGED OtherThanCron
    /\ q_pc["cli"] = "idle"
    /\ q_nextId < FirstNewId + MaxAdds
    /\ \E schedule \in CliSchedules : q_arg' = schedule
    /\ q_mem' = [q_mem EXCEPT !["cli"] = q_file]
    /\ q_pc' = [q_pc EXCEPT !["cli"] = "adding"]
    /\ UNCHANGED <<q_file, q_wake, q_notify, q_now, q_nextId, q_inbound, q_removed,
                   q_added>>

\* add_job, lines 211-264: the schedule is parsed, the job pushed and the store
\* saved; the process of the command line ends and its store is dropped
CliAddSave ==
    /\ UNCHANGED OtherThanCron
    /\ q_pc["cli"] = "adding"
    /\ LET sched == ParseSchedule(q_arg)
           jobs == Append(q_mem["cli"], NewJob(q_nextId, Unwrap(sched), None, None, q_now))
       IN IF IsSome(sched)
          THEN /\ q_file' = jobs
               /\ q_added' = q_added \cup {q_nextId}
               /\ q_nextId' = q_nextId + 1
          ELSE UNCHANGED <<q_file, q_added, q_nextId>>
    /\ q_mem' = [q_mem EXCEPT !["cli"] = <<>>]
    /\ q_pc' = [q_pc EXCEPT !["cli"] = "idle"]
    /\ q_arg' = <<>>
    /\ UNCHANGED <<q_wake, q_notify, q_now, q_inbound, q_removed>>

\* the command line: remove_job, line 275
CliRemoveLoad ==
    /\ UNCHANGED OtherThanCron
    /\ q_pc["cli"] = "idle"
    /\ Cardinality(q_removed) < MaxRemoves
    /\ \E id \in 1..(q_nextId - 1) : q_arg' = id
    /\ q_mem' = [q_mem EXCEPT !["cli"] = q_file]
    /\ q_pc' = [q_pc EXCEPT !["cli"] = "removing"]
    /\ UNCHANGED <<q_file, q_wake, q_notify, q_now, q_nextId, q_inbound, q_removed,
                   q_added>>

\* remove_job, lines 276-281, with CronStore::remove; the process ends
CliRemoveSave ==
    /\ UNCHANGED OtherThanCron
    /\ q_pc["cli"] = "removing"
    /\ LET jobs == Retain(q_mem["cli"], q_arg)
           removed == Len(jobs) < Len(q_mem["cli"])
       IN /\ q_file' = IF removed THEN jobs ELSE q_file
          /\ q_removed' = IF removed THEN q_removed \cup {q_arg} ELSE q_removed
    /\ q_mem' = [q_mem EXCEPT !["cli"] = <<>>]
    /\ q_pc' = [q_pc EXCEPT !["cli"] = "idle"]
    /\ q_arg' = <<>>
    /\ UNCHANGED <<q_wake, q_notify, q_now, q_nextId, q_inbound, q_added>>

CronNext ==
    \/ Tick
    \/ StartService
    \/ LoopReload
    \/ Notified
    \/ SleepOver
    \/ PassBegin
    \/ PassSave
    \/ ToolAdd
    \/ ToolRemove
    \/ CliAddLoad
    \/ CliAddSave
    \/ CliRemoveLoad
    \/ CliRemoveSave

----------------------------------------------------------------------------
(* Specifications: each runs one component and leaves the others idle *)

PureIdle == ExtractIdle /\ FileIdle /\ SideIdle

InitCons == ConsInit /\ CompactIdle /\ AgentIdle /\ PureIdle

SpecCons == InitCons /\ [][ConsNext]_vars

InitCompact == CompactInit /\ ConsIdle /\ AgentIdle /\ PureIdle

SpecCompact == InitCompact /\ [][CompactNext]_vars

InitAgent == AgentInit /\ CompactIdle /\ PureIdle

SpecAgent == InitAgent /\ [][AgentNext]_vars

\* the steps of AgentNext that neither take a session's lock nor process the
\* turn's own completion
AgentInternal ==
    \/ \E t \in TaskIds : Spawn(t)
    \/ \E t \in TaskIds : LockMap(t)
    \/ \E t \in TaskIds : CloneEntry(t)
    \/ \E t \in TaskIds : ExtractedNothing(t)
    \/ \E t \in TaskIds : ExtractedFacts(t)
    \/ \E t \in TaskIds : Consolidated(t)
    \/ \E t \in TaskIds : Publish(t)
    \/ LoopHead
    \/ Search
    \/ LlmDecide
    \/ Execute
    \/ ExecuteFallbackAdd
    \/ ExecuteReplacementAdd

\* some turn waits for a session lock that is free: LockHistory is enabled
LockAvailable ==
    \E t \in TaskIds :
        /\ a_tasks[t].pc = "want_history"
        /\ HistoryLockFree(a_histories[TurnOf(t).session])

\* some turn waits for prompt_with_fallback, which answers every turn of a
\* script with a text or an error: CompletionOk or CompletionErr is enabled
AwaitingCompletion == \E t \in TaskIds : a_tasks[t].pc = "prompting"

\* the tokio runtime keeps polling: a task that can take a step takes one.
\* For LockHistory and the completion steps weak fairness is stated through
\* their enabling conditions
SpecAgentLive ==
    /\ InitAgent
    /\ [][AgentNext]_vars
    /\ WF_vars(AgentInternal)
    /\ []<>(~LockAvailable)
    /\ []<>(~AwaitingCompletion)

InitExtract == ExtractInit /\ ConsIdle /\ CompactIdle /\ AgentIdle /\ FileIdle /\ SideIdle
SpecExtract == InitExtract /\ [][ExtractNext]_vars

InitFallback ==
    FallbackInit /\ ConsIdle /\ CompactIdle /\ AgentIdle /\ ExtractIdle /\ FileIdle /\ CronIdle

\* the runtime polls the task of the turn whenever it can take a step, and a
\* call that is going to answer does answer
SpecFallbackLive == InitFallback /\ [][FallbackNext]_vars /\ WF_vars(FallbackNext)

InitCron ==
    CronInit /\ ConsIdle /\ CompactIdle /\ AgentIdle /\ ExtractIdle /\ FileIdle /\ FallbackIdle

SpecCron == InitCron /\ [][CronNext]_vars

InitFile == FileInit /\ ConsIdle /\ CompactIdle /\ AgentIdle /\ ExtractIdle /\ SideIdle
SpecFile == InitFile /\ [][FileNext]_vars

----------------------------------------------------------------------------
(* Properties of consolidate *)

Entries == 1..Len(c_trace)

\* the model answered, and its answer parsed, for the k-th result
Answered(k) == c_trace[k].resp.kind = "ok"

\* the operation the answer asks for, in upper case
AskedFor(k) == ToUppercase(c_trace[k].resp.operation)

\* the answer names an id outside the candidate set shown to the model
NamesForeignId(k) ==
    /\ Answered(k)
    /\ IsSome(c_trace[k].resp.memory_id)
    /\ Unwrap(c_trace[k].resp.memory_id) \notin CandidateIds(c_trace[k].similar)

MutatingCalls(k) ==
    { j \in 1..Len(c_trace[k].calls) : c_trace[k].calls[j].op \in {"update", "delete"} }

AddCalls(k) ==
    { j \in 1..Len(c_trace[k].calls) : c_trace[k].calls[j].op = "add" }

C2_OnlyValidIdsMutated ==
    \A k \in Entries :
        /\ \A j \in MutatingCalls(k) :
              /\ c_trace[k].search_ok
              /\ IsSome(c_trace[k].calls[j].id)
              /\ Unwrap(c_trace[k].calls[j].id) \in CandidateIds(c_trace[k].similar)
        /\ (/\ Answered(k)
            /\ AskedFor(k) \in {"UPDATE", "DELETE"}
            /\ \/ ~IsSome(c_trace[k].resp.memory_id)
               \/ NamesForeignId(k))
           => /\ c_results[k].operation = "Add"
              /\ c_results[k].reason =
                    (IF IsSome(c_trace[k].resp.memory_id)
                     THEN "Invalid memory_id" ELSE "Missing memory_id")
              /\ c_results[k].reason # Unwrap(OrElse(c_trace[k].resp.reason, Some("")))

\* one fact was downgraded for a missing id and another updated a candidate
C2_Witness ==
    /\ \E k \in Entries :
          /\ Answered(k) /\ AskedFor(k) = "UPDATE"
          /\ ~IsSome(c_trace[k].resp.memory_id)
          /\ c_results[k].reason = "Missing memory_id"
          /\ c_trace[k].finished
    /\ \E k \in Entries : \E j \in MutatingCalls(k) :
          c_trace[k].calls[j].op = "update" /\ c_trace[k].calls[j].ok

\* C3: with candidates found, a failed or unparsable completion gives Add with
\* reason "LLM failed", and the fact is handed to store.add
C3_FailOpenAdd ==
    \A k \in Entries :
        (c_trace[k].similar # <<>> /\ c_trace[k].resp.kind \in {"transport_failed", "parse_failed"})
        => /\ c_results[k].operation = "Add"
           /\ c_results[k].reason = "LLM failed"
           /\ c_results[k].new_content = Some(c_facts[c_trace[k].idx].content)
           /\ c_trace[k].finished =>
                /\ Len(c_trace[k].calls) = 1
                /\ c_trace[k].calls[1].op = "add"
                /\ c_trace[k].calls[1].content =
                      sanitize_storage_content(c_facts[c_trace[k].idx].content)

\* the completion failed for a fact with candidates and the fact was stored
C3_Witness ==
    \E k \in Entries :
        /\ c_trace[k].similar # <<>>
        /\ c_trace[k].resp.kind = "transport_failed"
        /\ c_trace[k].finished
        /\ c_trace[k].calls[1].ok
        /\ \E j \in 1..Len(c_trace[k].after) :
              c_trace[k].after[j].content =
                  sanitize_storage_content(c_facts[c_trace[k].idx].content)

\* the indices of the facts of the batch that pass the length floor, in order
RECURSIVE KeptFrom(_, _)
KeptFrom(facts, i) ==
    IF i > Len(facts) THEN <<>>
    ELSE IF Len(Trim(facts[i].content)) < MinFactLen THEN KeptFrom(facts, i + 1)
    ELSE <<i>> \o KeptFrom(facts, i + 1)

\* C4: facts are processed in input order; when consolidate returns, every
\* fact that passes the length floor has exactly one result, in input order,
\* and was executed, whether or not a store call of an earlier fact failed
C4_BatchNotAborted ==
    /\ \A k \in Entries :
          /\ c_trace[k].idx = KeptFrom(c_facts, 1)[k]
          /\ k < Len(c_trace) => c_trace[k].finished
    /\ Len(c_results) = Len(c_trace)
    /\ c_pc = "done" =>
          /\ Len(c_results) = Len(KeptFrom(c_facts, 1))
          /\ \A k \in Entries : c_trace[k].finished

\* a store call of the first fact failed and the second fact was still
\* decided and stored
C4_Witness ==
    /\ c_pc = "done"
    /\ Len(c_trace) = 2
    /\ \E j \in 1..Len(c_trace[1].calls) : ~c_trace[1].calls[j].ok
    /\ \E j \in 1..Len(c_trace[2].calls) : c_trace[2].calls[j].ok

\* the same fact submitted twice, nothing similar stored before the first
\* submission and no other change of the store between the two
SameFactTwice ==
    /\ c_pc = "done"
    /\ Len(c_facts) = 2 /\ c_facts[1] = c_facts[2]
    /\ Len(c_trace) = 2
    /\ c_trace[1].search_ok /\ c_trace[1].similar = <<>>
    /\ c_trace[2].before = c_trace[1].after

ItemsHolding(st, text, ns) ==
    { j \in 1..Len(st) : st[j].ns = ns /\ st[j].content = sanitize_storage_content(text) }

ValidUpdate(k) ==
    /\ c_results[k].operation = "Update"
    /\ IsSome(c_results[k].memory_id)
    /\ Unwrap(c_results[k].memory_id) \in CandidateIds(c_trace[k].similar)
    /\ c_trace[k].finished

ContentOf(st, id) == { st[j].content : j \in { i \in 1..Len(st) : st[i].id = id } }

OldContentFromCandidate(k) ==
    IsSome(c_results[k].old_content) =>
        /\ IsSome(c_results[k].memory_id)
        /\ \E j \in 1..Len(c_trace[k].similar) :
              /\ c_trace[k].similar[j].item.id = Unwrap(c_results[k].memory_id)
              /\ c_trace[k].similar[j].item.content = Unwrap(c_results[k].old_content)

\* C10 as stated: after a valid Update the item with that id holds the new
\* text, no item is created, and old_content is the candidate's content
C10_AsStated ==
    \A k \in Entries :
        /\ ValidUpdate(k) =>
              /\ ContentOf(c_trace[k].after, Unwrap(c_results[k].memory_id))
                    = {Unwrap(c_results[k].new_content)}
              /\ AddCalls(k) = {}
              /\ IsSome(c_results[k].old_content)
        /\ OldContentFromCandidate(k)

\* C10 amended: after a valid Update whose store.update call succeeds and
\* finds the item, the item with that id holds the new text with '<' and '>'
\* neutralized and no add is issued; when the store reports the item as not
\* found the text is added as a new item, and when the call fails nothing is
\* added; old_content is the content of the targeted candidate as retrieved,
\* and is populated only for results that target a candidate
C10_UpdateInPlace ==
    \A k \in Entries :
        /\ ValidUpdate(k) =>
              /\ Len(c_trace[k].calls) >= 1
              /\ c_trace[k].calls[1].op = "update"
              /\ c_trace[k].calls[1].id = c_results[k].memory_id
              /\ IsSome(c_results[k].old_content)
              /\ LET id == Unwrap(c_results[k].memory_id)
                     new == sanitize_storage_content(Unwrap(c_results[k].new_content))
                     found == \E j \in 1..Len(c_trace[k].after) :
                                  c_trace[k].after[j].id = id
                 IN /\ c_trace[k].calls[1].content = new
                    /\ (c_trace[k].calls[1].ok /\ AddCalls(k) = {}) =>
                          ContentOf(c_trace[k].after, id) = {new}
                    /\ ~c_trace[k].calls[1].ok => AddCalls(k) = {}
                    /\ AddCalls(k) # {} =>
                          /\ c_trace[k].calls[2].content = new
                          /\ c_trace[k].calls[2].ok => ~found
        /\ OldContentFromCandidate(k)

\* a candidate that is not the top one was updated in place with a text
\* holding markup
C10_Witness ==
    \E k \in Entries :
        /\ ValidUpdate(k)
        /\ c_trace[k].calls[1].ok
        /\ AddCalls(k) = {}
        /\ Unwrap(c_results[k].memory_id) # c_trace[k].similar[1].item.id
        /\ HasMarkup(Unwrap(c_results[k].new_content))
        /\ ContentOf(c_trace[k].after, Unwrap(c_results[k].memory_id))
              = {sanitize_storage_content(Unwrap(c_results[k].new_content))}

\* the calls that execute_operation made on the store for the k-th result
StoreCalls(k) ==
    { j \in 1..Len(c_trace[k].calls) : c_trace[k].calls[j].op \in {"add", "update", "delete"} }

\* execute_operation has made one store call for the current fact and has
\* another one still to make
BetweenStoreCalls == c_pc \in {"fallback_add", "replacement_add"}

\* C11 as stated: processing one fact performs at most one mutating call on
\* the store (one add, one update or one delete), so that no state between
\* two calls of one fact can be observed or be left behind by a failure
C11_AsStated ==
    /\ \A k \in Entries : Cardinality(StoreCalls(k)) <= 1
    /\ ~BetweenStoreCalls

\* a Delete with a replacement text removed its target and the add of the
\* replacement failed: the fact is finished, and the store holds neither the
\* old item nor the replacement
C11_HalfApplied ==
    \E k \in Entries :
        /\ c_trace[k].finished
        /\ c_results[k].operation = "Delete"
        /\ Len(c_trace[k].calls) = 2
        /\ c_trace[k].calls[1].op = "delete" /\ c_trace[k].calls[1].ok
        /\ c_trace[k].calls[2].op = "add" /\ ~c_trace[k].calls[2].ok
        /\ \E j \in 1..Len(c_trace[k].before) :
              c_trace[k].before[j].id = Unwrap(c_results[k].memory_id)
        /\ ~\E j \in 1..Len(c_trace[k].after) :
              \/ c_trace[k].after[j].id = Unwrap(c_results[k].memory_id)
              \/ c_trace[k].after[j].content = c_trace[k].calls[2].content

\* the items of namespace ns that hold the text content
Holding(st, ns, content) ==
    { j \in 1..Len(st) : st[j].ns = ns /\ st[j].content = content }

\* the k-th result is a valid Update whose store.update call returned without
\* error and did not find its target
UpdateLostTarget(k) ==
    /\ ValidUpdate(k)
    /\ Len(c_trace[k].calls) >= 1
    /\ c_trace[k].calls[1].op = "update"
    /\ c_trace[k].calls[1].ok
    /\ Unwrap(c_results[k].memory_id) \notin StoreIds(c_trace[k].after)

\* C17 as stated: a valid Update whose target is reported as not found
\* returns no error, and afterwards the namespace holds the new content
\* exactly once
C17_AsStated ==
    \A k \in Entries :
        UpdateLostTarget(k) =>
            /\ \A j \in 1..Len(c_trace[k].calls) : c_trace[k].calls[j].ok
            /\ Cardinality(Holding(c_trace[k].after, c_ns,
                                   Unwrap(c_results[k].new_content))) = 1

\* C17 amended: a valid Update whose target is reported as not found is
\* followed by exactly one store.add of the new content with '<' and '>'
\* neutralized; when that add succeeds the namespace holds exactly one item
\* with that text that the store did not hold before the fact was executed
\* (an older item with the same text stays next to it), and when the add
\* fails no such item exists
C17_FallbackAdd ==
    \A k \in Entries :
        UpdateLostTarget(k) =>
            LET new == sanitize_storage_content(Unwrap(c_results[k].new_content))
                fresh == { j \in Holding(c_trace[k].after, c_ns, new) :
                             c_trace[k].after[j].id \notin StoreIds(c_trace[k].before) }
            IN /\ Len(c_trace[k].calls) = 2
               /\ c_trace[k].calls[2].op = "add"
               /\ c_trace[k].calls[2].content = new
               /\ c_trace[k].calls[2].ok => Cardinality(fresh) = 1
               /\ ~c_trace[k].calls[2].ok => fresh = {}

\* the target of an Update with markup in its text was evicted before the
\* update ran, and the text was added as a new item
C17_Witness ==
    \E k \in Entries :
        /\ UpdateLostTarget(k)
        /\ HasMarkup(Unwrap(c_results[k].new_content))
        /\ Len(c_trace[k].calls) = 2
        /\ c_trace[k].calls[2].op = "add"
        /\ c_trace[k].calls[2].ok
        /\ Holding(c_trace[k].after, c_ns,
                   sanitize_storage_content(Unwrap(c_results[k].new_content))) # {}

\* the k-th result is a Delete of one of the fact's candidates, executed
ValidDelete(k) ==
    /\ c_results[k].operation = "Delete"
    /\ IsSome(c_results[k].memory_id)
    /\ Unwrap(c_results[k].memory_id) \in CandidateIds(c_trace[k].similar)
    /\ c_trace[k].finished

\* the items of st that an earlier state of the store did not hold
NewItems(st, earlier) == { j \in 1..Len(st) : st[j].id \notin StoreIds(earlier) }

\* C18 as stated: after a valid Delete the target is gone; a replacement that
\* differs from the old content is in the namespace as a new item; with an
\* identical replacement nothing is added and the namespace is left without
\* that content
C18_AsStated ==
    \A k \in Entries :
        ValidDelete(k) =>
            LET id == Unwrap(c_results[k].memory_id)
                new == Unwrap(c_results[k].new_content)
                old == Unwrap(c_results[k].old_content)
                after == c_trace[k].after
            IN /\ id \notin StoreIds(after)
               /\ new # old =>
                     \E j \in Holding(after, c_ns, new) :
                         j \in NewItems(after, c_trace[k].before)
               /\ new = old =>
                     /\ AddCalls(k) = {}
                     /\ Holding(after, c_ns, old) = {}

\* C18 amended: a valid Delete calls store.delete for its target first. When
\* that call fails nothing else is done for the fact. When it succeeds the
\* target is gone, and then: a replacement that differs from the old content
\* is added once with '<' and '>' neutralized, giving the namespace exactly
\* one new item with that text when the add succeeds and none when it fails;
\* an identical replacement is not added, so the namespace gains no item
C18_DeleteAndReplace ==
    \A k \in Entries :
        ValidDelete(k) =>
            LET id == Unwrap(c_results[k].memory_id)
                new == Unwrap(c_results[k].new_content)
                old == Unwrap(c_results[k].old_content)
                after == c_trace[k].after
                calls == c_trace[k].calls
                fresh == { j \in NewItems(after, c_trace[k].before) :
                             after[j].ns = c_ns }
            IN /\ Len(calls) >= 1
               /\ calls[1].op = "delete" /\ calls[1].id = Some(id)
               /\ ~calls[1].ok => Len(calls) = 1 /\ fresh = {}
               /\ calls[1].ok =>
                     /\ id \notin StoreIds(after)
                     /\ new # old =>
                           /\ Len(calls) = 2
                           /\ calls[2].op = "add"
                           /\ calls[2].content = sanitize_storage_content(new)
                           /\ calls[2].ok =>
                                 /\ Cardinality(fresh) = 1
                                 /\ \A j \in fresh :
                                       after[j].content = sanitize_storage_content(new)
                           /\ ~calls[2].ok => fresh = {}
                     /\ new = old => Len(calls) = 1 /\ fresh = {}

\* in one batch a Delete replaced its target by a different text, and a later
\* Delete whose replacement was the target's own text added nothing
C18_Witness ==
    \E k1, k2 \in Entries :
        /\ ValidDelete(k1) /\ ValidDelete(k2)
        /\ c_results[k1].new_content # c_results[k1].old_content
        /\ Len(c_trace[k1].calls) = 2
        /\ c_trace[k1].calls[1].ok /\ c_trace[k1].calls[2].ok
        /\ Unwrap(c_results[k1].memory_id) \in StoreIds(c_trace[k1].before)
        /\ c_results[k2].new_content = c_results[k2].old_content
        /\ Len(c_trace[k2].calls) = 1
        /\ c_trace[k2].calls[1].ok
        /\ Unwrap(c_results[k2].memory_id) \in StoreIds(c_trace[k2].before)
        /\ Unwrap(c_results[k2].memory_id) \notin StoreIds(c_trace[k2].after)

\* execute_operation runs for a fact whose decision is Noop, and returns
NoopExecuted ==
    /\ c_pc = "exec"
    /\ c_result.operation = "Noop"
    /\ c_pc' # "exec"

\* C19: executing a Noop issues no store call and leaves every item of the
\* store, of whatever namespace, with its id, content and metadata, in place
C19_NoopLeavesStore ==
    [][NoopExecuted =>
          /\ store' = store
          /\ nextId' = nextId
          /\ Last(c_trace').calls = <<>>
          /\ Last(c_trace').finished
          /\ Last(c_trace').after = store]_vars

\* the model answered NOOP for a fact with candidates, and the store of both
\* namespaces is as it was when the decision was made
C19_Witness ==
    \E k \in Entries :
        /\ c_trace[k].finished
        /\ c_results[k].operation = "Noop"
        /\ Answered(k)
        /\ c_trace[k].similar # <<>>
        /\ c_trace[k].calls = <<>>
        /\ c_trace[k].after = c_trace[k].before
        /\ \A ns \in Namespaces : \E j \in 1..Len(c_trace[k].after) :
              c_trace[k].after[j].ns = ns

\* the search for the k-th result succeeded and returned no candidate
NoCandidates(k) == c_trace[k].search_ok /\ c_trace[k].similar = <<>>

\* C20: when the search for a fact returns no candidate the decision is Add,
\* naming no id, with the text handed to consolidate_single (the fact's
\* content, trimmed) as new content, and the completion is not called: no
\* answer is recorded for the fact and llm_decide_operation is never entered
\* with an empty candidate list
C20_NoCandidatesAdd ==
    /\ \A k \in Entries :
          NoCandidates(k) =>
              /\ c_results[k].operation = "Add"
              /\ c_results[k].memory_id = None
              /\ c_results[k].new_content = Some(Trim(c_facts[c_trace[k].idx].content))
              /\ c_trace[k].resp = NoResponse
    /\ c_pc = "llm" => c_similar # <<>>

\* the namespace holds items, none of them is similar to the fact, and the
\* fact was added without an answer of the model
C20_Witness ==
    \E k \in Entries :
        /\ NoCandidates(k)
        /\ c_trace[k].finished
        /\ \E j \in 1..Len(c_trace[k].before) : c_trace[k].before[j].ns = c_ns
        /\ c_results[k].operation = "Add"
        /\ c_trace[k].resp = NoResponse
        /\ Len(c_trace[k].calls) = 1
        /\ c_trace[k].calls[1].op = "add" /\ c_trace[k].calls[1].ok
        /\ Holding(c_trace[k].after, c_ns, Trim(c_facts[c_trace[k].idx].content)) # {}

\* C21 as stated: a memory_id in a returned result is always one of the
\* fact's candidates, and Update and Delete results always carry one
C21_AsStated ==
    \A k \in Entries :
        /\ IsSome(c_results[k].memory_id) =>
              Unwrap(c_results[k].memory_id) \in CandidateIds(c_trace[k].similar)
        /\ c_results[k].operation \in {"Update", "Delete"} =>
              IsSome(c_results[k].memory_id)

\* the part of C21 that holds: Update and Delete results carry the id of a
\* candidate
C21_TargetsChecked ==
    \A k \in Entries :
        c_results[k].operation \in {"Update", "Delete"} =>
            /\ IsSome(c_results[k].memory_id)
            /\ Unwrap(c_results[k].memory_id) \in CandidateIds(c_trace[k].similar)

\* a returned result carries an id that the store never issued
C21_UncheckedId ==
    \E k \in Entries :
        /\ c_results[k].operation \in {"Add", "Noop"}
        /\ c_results[k].memory_id = Some(UnissuedId)

\* the scores of the candidates retrieved for the k-th result
CandidateScores(k) ==
    { c_trace[k].similar[j].score : j \in 1..Len(c_trace[k].similar) }

\* the score of the candidate that the k-th result targets
TargetScores(k) ==
    { c_trace[k].similar[j].score :
        j \in { i \in 1..Len(c_trace[k].similar) :
                  Some(c_trace[k].similar[i].item.id) = c_results[k].memory_id } }

\* C22 as stated: with candidates the similarity of a result is the highest
\* score among them, whichever candidate is targeted; without candidates it
\* is 0
C22_AsStated ==
    \A k \in Entries :
        IF c_trace[k].similar = <<>>
        THEN c_results[k].similarity = 0
        ELSE \A sc \in CandidateScores(k) : c_results[k].similarity >= sc

\* C22 amended: the similarity of a result is 0 when the fact had no
\* candidates or when no answer of the model was parsed; it is the score of
\* the targeted candidate when the result is an Update or a Delete; and it is
\* the score of the first candidate of the search result otherwise
C22_SimilarityField ==
    \A k \in Entries :
        /\ c_trace[k].similar = <<>> => c_results[k].similarity = 0
        /\ (c_trace[k].similar # <<>> /\ ~Answered(k)) =>
              c_results[k].similarity = 0
        /\ (Answered(k) /\ c_results[k].operation \in {"Update", "Delete"}) =>
              TargetScores(k) = {c_results[k].similarity}
        /\ (Answered(k) /\ c_results[k].operation \in {"Add", "Noop"}) =>
              c_results[k].similarity = c_trace[k].similar[1].score

\* an Update targets a candidate whose score is below the top score, and the
\* result carries the score of the target
C22_Witness ==
    \E k \in Entries :
        /\ Answered(k)
        /\ c_results[k].operation = "Update"
        /\ TargetScores(k) = {c_results[k].similarity}
        /\ c_results[k].similarity < c_trace[k].similar[1].score

\* execute_operation makes a store call for the current fact
StoreCallStep ==
    /\ c_pc \in {"exec", "fallback_add", "replacement_add"}
    /\ otherAdds' = otherAdds

\* the items of the store after the step that the store did not hold, or held
\* with another content or importance, before it
Written == { j \in 1..Len(store') : \A i \in 1..Len(store) : store[i] # store'[j] }

\* C23: every store call of execute_operation passes a content without '<'
\* and '>', and every item it adds or updates holds such a content and an
\* importance within [0, 1]: the fact's importance clamped, or 0.5 when that
\* is not finite
C23_StoredSanitized ==
    [][StoreCallStep =>
          /\ \A j \in 1..Len(Last(c_trace').calls) :
                ~HasMarkup(Last(c_trace').calls[j].content)
          /\ \A j \in Written :
                /\ ~HasMarkup(store'[j].content)
                /\ store'[j].importance \in 0..100
                /\ store'[j].importance =
                      (IF ~c_facts[c_i].importance.finite THEN 50
                       ELSE IF c_facts[c_i].importance.v > 100 THEN 100
                       ELSE IF c_facts[c_i].importance.v < 0 THEN 0
                       ELSE c_facts[c_i].importance.v)]_vars

\* a fact with markup and an importance above 1 was added, and an item of
\* the namespace was updated in place for a fact whose importance is not in
\* range either
C23_Witness ==
    \E k \in Entries :
        /\ c_trace[k].finished
        /\ ~c_facts[c_trace[k].idx].importance.finite
              \/ c_facts[c_trace[k].idx].importance.v \notin 0..100
        /\ HasMarkup(Unwrap(c_results[k].new_content))
        /\ Len(c_trace[k].calls) >= 1
        /\ Last(c_trace[k].calls).ok
        /\ \E j \in 1..Len(c_trace[k].after) :
              /\ c_trace[k].after[j].ns = c_ns
              /\ c_trace[k].after[j].content =
                    sanitize_storage_content(Unwrap(c_results[k].new_content))
              /\ \A i \in 1..Len(c_trace[k].before) :
                    c_trace[k].before[i] # c_trace[k].after[j]

----------------------------------------------------------------------------
(* Properties of build_history_for_llm *)

LastTurns(seq, n) == SubSeq(seq, Len(seq) - n + 1, Len(seq))

Min(a, b) == IF a < b THEN a ELSE b

IsRecap(m) == m.kind = "Assistant" /\ Take(m.text, Len(RecallHeader)) = RecallHeader

\* C6 as stated: below the threshold the sent history is the stored one and
\* was_compacted is false; at or above it was_compacted is true and the sent
\* history ends with exactly the last recent_turns_keep*2 stored turns
C6_AsStated ==
    k_pc = "built" =>
        IF Len(k_history) < k_cfg.threshold
        THEN k_built.sent = k_history /\ ~k_built.compacted
        ELSE LET n == k_cfg.recent_turns_keep * 2
             IN /\ k_built.compacted
                /\ Len(k_built.sent) >= n
                /\ Len(k_history) >= n
                /\ LastTurns(k_built.sent, n) = LastTurns(k_history, n)

\* C6 amended: at or above the threshold the sent history ends with the last
\* min(len, recent_turns_keep*2) stored turns, in order, preceded by nothing
\* but at most one recap turn
C6_CompactionThreshold ==
    k_pc = "built" =>
        IF Len(k_history) < k_cfg.threshold
        THEN k_built.sent = k_history /\ ~k_built.compacted
        ELSE LET n == Min(Len(k_history), k_cfg.recent_turns_keep * 2)
             IN /\ k_built.compacted
                /\ Len(k_built.sent) \in {n, n + 1}
                /\ LastTurns(k_built.sent, n) = LastTurns(k_history, n)
                /\ Len(k_built.sent) = n + 1 => IsRecap(k_built.sent[1])

\* a history above the threshold was cut to a recap and its last two turns
C6_Witness ==
    /\ k_pc = "built"
    /\ k_built.compacted
    /\ k_cfg.recent_turns_keep = 1
    /\ Len(k_history) = 5
    /\ Len(k_built.sent) = 3
    /\ IsRecap(k_built.sent[1])
    /\ k_built.sent[2] = k_history[4]
    /\ k_built.sent[3] = k_history[5]

Max(a, b) == IF a > b THEN a ELSE b

\* the bound on the number of turns sent to the provider
SentBound(cfg) == Max(cfg.threshold - 1, cfg.recent_turns_keep * 2 + 1)

\* C25: whatever the history and the configuration, the history sent to the
\* provider has at most max(threshold - 1, recent_turns_keep*2 + 1) turns
C25_SentBounded ==
    k_pc = "built" => Len(k_built.sent) <= SentBound(k_cfg)

\* a history longer than the bound was sent as a recap and the recent turns,
\* which is exactly the bound
C25_Witness ==
    /\ k_pc = "built"
    /\ Len(k_history) > SentBound(k_cfg)
    /\ k_cfg.recent_turns_keep > 0
    /\ Len(k_built.sent) = k_cfg.recent_turns_keep * 2 + 1
    /\ Len(k_built.sent) = SentBound(k_cfg)

\* the stored turns before the recent ones, split as compact splits them
OlderTurns(history, cfg) ==
    LET n == Min(Len(history), cfg.recent_turns_keep * 2)
        recent_start == Len(history) - n
        middle_start == Max(0, recent_start - cfg.summary_max_turns * 2)
    IN [recent |-> n,
        old |-> SubSeq(history, 1, middle_start),
        middle |-> SubSeq(history, middle_start + 1, recent_start)]

HasToken(text, token) == \E k \in 1..Len(text) : text[k] = token

\* C26: at or above the threshold the sent history is zero or one recap turn
\* followed by the recent turns; the recap holds the facts block exactly
\* when the scan of old found a fact and the summary block exactly when
\* middle is not empty and its summary is not empty; there is no recap when
\* neither block is there, in particular when old and middle are both empty
C26_RecapTurn ==
    (k_pc = "built" /\ Len(k_history) >= k_cfg.threshold) =>
        LET parts == OlderTurns(k_history, k_cfg)
            found == /\ parts.old # <<>>
                     /\ extract_facts_from_messages(messages_to_chat(parts.old),
                                                    k_cfg.max_facts) # <<>>
            summarized == /\ parts.middle # <<>>
                          /\ summarize(messages_to_chat(parts.middle)) # <<>>
            recaps == Len(k_built.sent) - parts.recent
        IN /\ recaps \in {0, 1}
           /\ LastTurns(k_built.sent, parts.recent) = LastTurns(k_history, parts.recent)
           /\ recaps = 1 <=> (found \/ summarized)
           /\ recaps = 1 =>
                 /\ k_built.sent[1].kind = "Assistant"
                 /\ Take(k_built.sent[1].text, Len(RecallHeader)) = RecallHeader
                 /\ HasToken(k_built.sent[1].text, "Key facts:") <=> found
                 /\ HasToken(k_built.sent[1].text, "Recent discussion summary:")
                       <=> summarized
           /\ (parts.old = <<>> /\ parts.middle = <<>>) => recaps = 0

\* a recap that holds the facts block and the summary block, before two
\* recent turns
C26_Witness ==
    /\ k_pc = "built"
    /\ Len(k_history) >= k_cfg.threshold
    /\ Len(k_built.sent) = 3
    /\ k_cfg.recent_turns_keep = 1
    /\ HasToken(k_built.sent[1].text, "Key facts:")
    /\ HasToken(k_built.sent[1].text, "Recent discussion summary:")
    /\ LastTurns(k_built.sent, 2) = LastTurns(k_history, 2)

\* a history at the threshold with old and middle both empty is sent without
\* a recap
C26_NoRecap ==
    /\ k_pc = "built"
    /\ Len(k_history) >= k_cfg.threshold
    /\ k_history # <<>>
    /\ k_built.sent = k_history
    /\ k_built.compacted

\* the lines of the non-system messages, in order
RECURSIVE ScannedLines(_)
ScannedLines(messages) ==
    IF messages = <<>> THEN <<>>
    ELSE (IF Head(messages).role = "system" THEN <<>>
          ELSE [k \in 1..Len(Lines(Head(messages).content)) |->
                    Trim(Lines(Head(messages).content)[k])])
         \o ScannedLines(Tail(messages))

\* the facts are pairwise distinct, each the first 200 characters of a line
\* of a non-system message, and they come in the order of those lines
DistinctInOrder(facts, messages) ==
    LET lines == ScannedLines(messages)
    IN /\ \A i, j \in 1..Len(facts) : i # j => facts[i] # facts[j]
       /\ \E pos \in [1..Len(facts) -> 1..(Len(lines) + 1)] :
             /\ \A i \in 1..Len(facts) :
                   /\ pos[i] <= Len(lines)
                   /\ facts[i] = Take(lines[pos[i]], MaxFactChars)
                   /\ \A p \in 1..(pos[i] - 1) :
                         Take(lines[p], MaxFactChars) # facts[i]
             /\ \A i, j \in 1..Len(facts) : i < j => pos[i] < pos[j]

\* C27 as stated: the scan returns at most max_facts facts, pairwise
\* distinct, in order of first occurrence, from non-system messages only
C27_AsStated ==
    k_pc = "scanned" =>
        /\ Len(k_scan.facts) <= k_cfg.max_facts
        /\ DistinctInOrder(k_scan.facts, k_scan.messages)

\* what holds of the scan: at most max(max_facts, 1) facts, pairwise
\* distinct, in order of first occurrence, from non-system messages only
C27_ScanCapped ==
    k_pc = "scanned" =>
        /\ Len(k_scan.facts) <= Max(k_cfg.max_facts, 1)
        /\ DistinctInOrder(k_scan.facts, k_scan.messages)

\* a scan with max_facts = 0 returned a fact
C27_OneFactForZero ==
    /\ k_pc = "scanned"
    /\ k_cfg.max_facts = 0
    /\ Len(k_scan.facts) = 1

----------------------------------------------------------------------------
(* Properties of the agent loop *)

SessionOf(t) == TurnOf(t).session

IsPrefix(a, b) == Len(a) <= Len(b) /\ SubSeq(b, 1, Len(a)) = a

\* between reading the session's history and dropping its guard
InCritical(t) == a_tasks[t].pc \in {"prompting", "extracting", "consolidating"}

\* process_message returned and dropped the guard, the reply is not yet sent
Released(t) == a_tasks[t].pc = "publishing"

HasRead(t) == InCritical(t) \/ Released(t)

\* C5: two running turns of one session never overlap their critical sections:
\* one of them dropped the guard before the other read, and the other read a
\* history that starts with everything the first one left; a turn waiting for
\* the completion still sees the stored history it read
C5_SessionTurnsSerialized ==
    /\ \A t \in TaskIds :
         InCritical(t) =>
            /\ a_histories[SessionOf(t)].holder = t
            /\ a_tasks[t].pc = "prompting" =>
                  a_tasks[t].read = a_histories[SessionOf(t)].messages
    /\ \A t1, t2 \in TaskIds :
         (t1 # t2 /\ SessionOf(t1) = SessionOf(t2) /\ HasRead(t1) /\ HasRead(t2)) =>
            \/ Released(t1) /\ IsPrefix(a_tasks[t1].after, a_tasks[t2].read)
            \/ Released(t2) /\ IsPrefix(a_tasks[t2].after, a_tasks[t1].read)

\* a turn appended its two messages and returned; the next turn of the same
\* session, spawned meanwhile, read exactly what it left
C5_Witness ==
    \E t1, t2 \in TaskIds :
        /\ t1 # t2
        /\ SessionOf(t1) = SessionOf(t2)
        /\ Released(t1)
        /\ Len(a_tasks[t1].after) = Len(a_tasks[t1].read) + 2
        /\ a_tasks[t2].pc = "prompting"
        /\ a_tasks[t2].read = a_tasks[t1].after

\* a turn waits for its session's history lock
WaitsForHistory(t) == a_tasks[t].pc = "want_history"

\* C24: the lock of the map of histories is held only across the lookup of
\* the entry, never by a turn that waits for or holds a history lock; a
\* history lock is held only by a turn of its own session; so a turn that
\* waits for its history lock finds it free unless a turn of the same session
\* holds it, whatever the turns of other sessions are doing
C24_SessionsIndependent ==
    /\ \A t \in TaskIds :
          /\ a_mapHolder = t => a_tasks[t].pc = "map_locked"
          /\ (WaitsForHistory(t) \/ InCritical(t)) => a_mapHolder # t
          /\ (WaitsForHistory(t) /\ ~HistoryLockFree(a_histories[SessionOf(t)])) =>
                \E u \in TaskIds \ {t} :
                    /\ SessionOf(u) = SessionOf(t)
                    /\ InCritical(u)
                    /\ a_histories[SessionOf(t)].holder = u
    /\ \A s \in Namespaces :
          a_histories[s].holder # 0 =>
              /\ a_histories[s].holder \in TaskIds
              /\ SessionOf(a_histories[s].holder) = s

\* a turn holds its session's lock, waiting for an extraction answer that
\* never comes, while a turn of the other session that was spawned later
\* holds its own lock
C24_Witness ==
    \E t1, t2 \in TaskIds :
        /\ t1 < t2
        /\ SessionOf(t1) # SessionOf(t2)
        /\ a_tasks[t1].pc = "extracting"
        /\ a_histories[SessionOf(t1)].holder = t1
        /\ a_tasks[t2].pc = "prompting"
        /\ a_histories[SessionOf(t2)].holder = t2

\* what a turn may add to the stored history
TurnMessages(user_text, assistant_text) ==
    (IF Trim(user_text) # <<>> THEN <<UserMessage(user_text)>> ELSE <<>>)
        \o (IF Trim(assistant_text) # <<>>
            THEN <<AssistantMessage(assistant_text)>> ELSE <<>>)

\* C7: every step leaves each stored history as it is or appends to it, behind
\* the turns already stored, the inbound text and the reply of a turn whose
\* completion succeeded: never the recap, never the history that was sent
C7_StoredHistoryAppendOnly ==
    [][\A s \in Namespaces :
          \/ a_histories'[s].messages = a_histories[s].messages
          \/ \E t \in TaskIds :
                /\ SessionOf(t) = s
                /\ a_tasks[t].pc = "prompting"
                /\ IsSome(TurnOf(t).completion)
                /\ a_histories'[s].messages =
                      a_histories[s].messages
                          \o TurnMessages(TurnOf(t).content,
                                          Unwrap(TurnOf(t).completion))]_vars

\* a turn sent a compacted history that starts with a recap, and the stored
\* history is the one it read plus its two messages, with no recap in it
C7_Witness ==
    \E t \in TaskIds :
        /\ Released(t)
        /\ a_tasks[t].compacted
        /\ IsRecap(a_tasks[t].sent[1])
        /\ Len(a_tasks[t].sent) < Len(a_tasks[t].read)
        /\ a_tasks[t].after = a_tasks[t].read \o
                <<UserMessage(TurnOf(t).content),
                  AssistantMessage(Unwrap(TurnOf(t).completion))>>
        /\ a_histories[SessionOf(t)].messages = a_tasks[t].after
        /\ \A k \in 1..Len(a_tasks[t].after) : ~IsRecap(a_tasks[t].after[k])

\* C8 as stated: a turn that is over, that is not a cron turn and whose
\* completion succeeded has published an outbound message with the
\* completion text, whatever extraction and consolidation did
C8_AsStated ==
    \A t \in TaskIds :
        (/\ a_tasks[t].pc \in Terminal
         /\ TurnOf(t).sender_id # "cron"
         /\ IsSome(TurnOf(t).completion)) =>
            /\ a_tasks[t].pc = "published"
            /\ \E k \in 1..Len(a_outbound) :
                  a_outbound[k] = OutboundMessage(SessionOf(t),
                                                  Unwrap(TurnOf(t).completion))

\* the calls of extract made for a session whose history held n user turns
ExtractCallsAt(session, n) ==
    { k \in 1..Len(a_extracts) :
        /\ a_extracts[k].session = session
        /\ UserCount(a_extracts[k].history) = n }

\* C13 as stated: with the memory pipeline enabled, extraction is triggered
\* exactly once for every Nth user turn of a session, against the stored
\* history accumulated so far, and on no other turn
C13_AsStated ==
    a_script.memory =>
        /\ \A k \in 1..Len(a_extracts) :
              /\ UserCount(a_extracts[k].history) > 0
              /\ UserCount(a_extracts[k].history) % a_script.interval = 0
              /\ IsPrefix(a_extracts[k].history,
                          a_histories[a_extracts[k].session].messages)
        /\ \A s \in Namespaces : \A n \in 1..UserCount(a_histories[s].messages) :
              Cardinality(ExtractCallsAt(s, n)) = (IF n % a_script.interval = 0 THEN 1 ELSE 0)

\* the tasks whose turn is inside consolidate
Consolidating == { t \in TaskIds : a_tasks[t].pc = "consolidating" }

\* a step of execute_operation: the store or the log of store calls changes
\* and no other session has added
ExecutionStep == (store' # store \/ c_trace' # c_trace) /\ otherAdds' = otherAdds

C16_AsStated ==
    \A s \in Namespaces : (a_histories[s].holder # 0) ~> (a_histories[s].holder = 0)

\* a turn waits for the answer of the extraction call while it holds its
\* session's lock, and nothing else is left to run
C16_HeldForever ==
    \E t \in TaskIds :
        /\ a_tasks[t].pc = "extracting"
        /\ TurnOf(t).extraction = "hang"
        /\ a_histories[SessionOf(t)].holder = t
        /\ ~ENABLED AgentNext

----------------------------------------------------------------------------
(* Properties of extract *)

\* the indices of the user turns among the messages from index from on
UserTurnsFrom(messages, from) ==
    { k \in from..Len(messages) : messages[k].role = "user" }

\* the first index of the window of the last 20 messages
WindowStart(messages) ==
    IF Len(messages) > ConversationWindow THEN Len(messages) - ConversationWindow + 1 ELSE 1

\* extract returned no fact without having called the model
SkippedWithoutCall == x_pc = "returned" /\ x_calls = 0 /\ x_facts = <<>>

\* C12 as stated: extract returns an empty list and makes no model call
\* whenever the window it serializes, the last 20 turns, holds fewer than 3
\* user turns
C12_AsStated ==
    (/\ x_pc # "ready"
     /\ Cardinality(UserTurnsFrom(x_messages, WindowStart(x_messages))) < MinUserMessages)
    => SkippedWithoutCall

\* C12 amended: extract returns an empty list and makes no model call
\* whenever the whole message list it is given holds fewer than 3 user turns,
\* whatever the turns contain
C12_FewUserTurnsSkipped ==
    (/\ x_pc # "ready"
     /\ Cardinality(UserTurnsFrom(x_messages, 1)) < MinUserMessages)
    => SkippedWithoutCall

\* extract skipped a list of more than 20 messages with two user turns, the
\* last of them a turn with facts, whose transcript is above the length floor
C12_Witness ==
    /\ SkippedWithoutCall
    /\ Len(x_messages) > ConversationWindow
    /\ Cardinality(UserTurnsFrom(x_messages, 1)) = 2
    /\ x_messages[Len(x_messages)] = ChatMessage("user", TextMyName)
    /\ ByteLen(format_conversation(x_messages).value) >= MinConversationBytes

\* the latest user turn of the messages, trimmed; None without a user turn
LatestUserTurn(messages) ==
    LET users == UserTurnsFrom(messages, 1)
    IN IF users = {} THEN None
       ELSE Some(Trim(messages[CHOOSE k \in users : \A j \in users : j <= k].content))

\* an acknowledgement word in any letter case, followed by nothing but
\* sentence punctuation and blanks
Acknowledgement(trimmed) ==
    \E w \in TrivialWords :
        /\ Len(trimmed) >= Len(w)
        /\ to_lowercase(SubSeq(trimmed, 1, Len(w))) = w
        /\ \A k \in (Len(w) + 1)..Len(trimmed) :
              trimmed[k] \in {".", "!", "?"} \cup Whitespace

\* C28 as stated: extract returns no fact and calls no model whenever the
\* latest user turn is empty or an acknowledgement, in whatever letter case
\* and with whatever trailing punctuation
C28_AsStated ==
    (x_pc # "ready" /\ IsSome(LatestUserTurn(x_messages))) =>
        LET trimmed == Unwrap(LatestUserTurn(x_messages))
        IN (trimmed = <<>> \/ Acknowledgement(trimmed)) => SkippedWithoutCall

\* what holds: a latest user turn that is empty or matches one of the two
\* patterns as they are written (lower case only, at most one punctuation
\* mark) ends extract without a fact and without a call
C28_PatternSkipped ==
    (x_pc # "ready" /\ IsSome(LatestUserTurn(x_messages))) =>
        LET trimmed == Unwrap(LatestUserTurn(x_messages))
        IN (trimmed = <<>> \/ IsTrivial(trimmed)) => SkippedWithoutCall

\* the latest of three user turns is "Thanks!" and the model was called
C28_CapitalCalled ==
    /\ x_pc = "awaiting"
    /\ x_calls = 1
    /\ LatestUserTurn(x_messages) = Some(Trim(TextThanksBang))

\* the texts the heuristic patterns yield from one turn taken alone
HeuristicTextsOf(content) ==
    LET facts == HeuristicScan(to_lowercase(content), 1, <<>>)
    IN { facts[k].content : k \in 1..Len(facts) }

\* C29: extract returns at most max_facts facts, all from the model or all
\* from the heuristic path, never a mix; the facts of the heuristic path are
\* what the patterns yield from some user turn, are tagged "heuristic" and
\* are pairwise distinct by text
C29_HeuristicFallback ==
    x_pc = "returned" =>
        /\ Len(x_facts) <= x_max_facts
        /\ \/ \A k \in 1..Len(x_facts) : x_facts[k].source = "llm"
           \/ /\ \A k \in 1..Len(x_facts) :
                    /\ x_facts[k].source = "heuristic"
                    /\ \E m \in 1..Len(x_messages) :
                          /\ x_messages[m].role = "user"
                          /\ x_facts[k].content \in HeuristicTextsOf(x_messages[m].content)
              /\ \A i, j \in 1..Len(x_facts) :
                    i # j => x_facts[i].content # x_facts[j].content

\* the call failed for messages in which an assistant turn and a user turn
\* hold indicator phrases: the one fact returned comes from the user turn,
\* and the cap of max_facts = 1 cut the list
C29_Witness ==
    /\ x_pc = "returned"
    /\ x_calls = 1
    /\ x_max_facts = 1
    /\ Len(x_facts) = 1
    /\ x_facts[1].source = "heuristic"
    /\ Len(heuristic_extract(x_messages)) > 1
    /\ \E m \in 1..Len(x_messages) :
          /\ x_messages[m].role = "assistant"
          /\ HeuristicTextsOf(x_messages[m].content) # {}

\* the index after the clause that starts at start, when the clause ends at
\* the nearest separator after start
NearestClauseEnd(content, start) ==
    LET hits == { k \in start..Len(content) :
                    \E j \in 1..Len(ClauseSeparators) : content[k] = ClauseSeparators[j] }
    IN IF hits = {} THEN Len(content) + 1
       ELSE CHOOSE k \in hits : \A j \in hits : k <= j

\* the facts of one turn when every clause ends at the nearest separator
NearestClauseTexts(content) ==
    LET lower == to_lowercase(content)
    IN { CapitalizeFirst(to_third_person(
             Trim(SubSeq(lower, Find(lower, HeuristicPatterns[k].indicator, 1),
                         NearestClauseEnd(lower,
                             Find(lower, HeuristicPatterns[k].indicator, 1)) - 1)))) :
           k \in { i \in 1..Len(HeuristicPatterns) :
                     Find(lower, HeuristicPatterns[i].indicator, 1) # 0 } }

\* C30 as stated: every fact of the heuristic path is the clause that starts
\* at an indicator phrase of a user turn and ends at the nearest following
\* '.', '!', '?' or newline, or at the end of the turn
C30_AsStated ==
    x_pc = "returned" =>
        \A k \in 1..Len(x_facts) :
            x_facts[k].source = "heuristic" =>
                \E m \in 1..Len(x_messages) :
                    /\ x_messages[m].role = "user"
                    /\ x_facts[k].content \in NearestClauseTexts(x_messages[m].content)

\* a fact of the heuristic path runs over an exclamation mark up to the
\* first full stop of its turn
C30_PastNearest ==
    /\ x_pc = "returned"
    /\ \E k \in 1..Len(x_facts) :
          /\ x_facts[k].source = "heuristic"
          /\ HasChar(x_facts[k].content, "!")

----------------------------------------------------------------------------
(* Properties of get_memory_context *)

\* the bytes get_memory_context adds around the two excerpts: the section
\* headers, the separator between the sections and a marker per excerpt
ContextOverhead ==
    Len(LongTermHeader) + Len(TodayHeader) + 2 + 2 * Len(MarkerAfterSeparator)

\* C14 as stated: for every max_chars and every content of the two files,
\* get_memory_context returns a text of at most max_chars bytes plus a
\* constant overhead, and the long-term excerpt in it is no longer than 60%
\* of max_chars
C14_AsStated ==
    f_pc \in {"returned", "panicked"} =>
        /\ ~f_out.panicked
        /\ ByteLen(f_out.value) <= f_max_chars + ContextOverhead
        /\ IsSome(f_out.long_term) =>
              ByteLen(Unwrap(f_out.long_term)) * 5 <= f_max_chars * 3

\* get_memory_context panicked on a long-term note that holds characters of
\* more than one byte
C14_PanicOnWideNote ==
    /\ f_pc = "panicked"
    /\ \E k \in 1..Len(f_long_term) : f_long_term[k] = WideChar
    /\ ByteLen(f_long_term) > long_term_budget(f_max_chars)

\* the bytes of an excerpt get_memory_context made, 0 when it made none
ExcerptLen(excerpt) == IF IsSome(excerpt) THEN ByteLen(Unwrap(excerpt)) ELSE 0

\* the budget left for today's notes once the long-term excerpt is in
RemainingAfterLongTerm == SaturatingSub(f_max_chars, ExcerptLen(f_out.long_term))

\* what C31 says of a finished call: today's notes are in the output exactly
\* when they are non-empty and more than 100 bytes remain, the long-term
\* excerpt is within 60% of max_chars, today's excerpt is within the remaining
\* budget and it is the whole note when the note fits
TodayRule ==
    /\ IsSome(f_out.today) <=>
          (f_today # <<>> /\ RemainingAfterLongTerm > MinTodayBudget)
    /\ (f_long_term # <<>>) <=> IsSome(f_out.long_term)
    /\ ExcerptLen(f_out.long_term) * 5 <= f_max_chars * 3
    /\ ExcerptLen(f_out.today) <= RemainingAfterLongTerm
    /\ (IsSome(f_out.today) /\ ByteLen(f_today) <= RemainingAfterLongTerm) =>
          Unwrap(f_out.today) = f_today

\* C31 as stated: in get_memory_context today's notes are included if and
\* only if they are non-empty and more than 100 bytes of budget remain after
\* the long-term excerpt; the long-term excerpt is cut to 60% of max_chars and
\* today's notes, when included, are cut to the remaining budget
C31_AsStated == f_pc \in {"returned", "panicked"} => TodayRule

\* the same rule for the calls that return, with a budget that leaves room
\* for the truncation marker
C31_RuleWhenReturned ==
    (f_pc = "returned" /\ long_term_budget(f_max_chars) >= Len(MarkerAfterSeparator)) =>
        TodayRule

\* get_memory_context panicked while cutting today's notes: the long-term
\* note fits its budget, today's note is too long and holds wide characters
C31_PanicOnToday ==
    /\ f_pc = "panicked"
    /\ ByteLen(f_long_term) <= long_term_budget(f_max_chars)
    /\ SaturatingSub(f_max_chars, ByteLen(f_long_term)) > MinTodayBudget
    /\ ByteLen(f_today) > SaturatingSub(f_max_chars, ByteLen(f_long_term))

----------------------------------------------------------------------------
(* Properties of truncate *)

\* the characters of content that lie within its first n bytes
HeadWithin(content, n) ==
    LET fit == { k \in 0..Len(content) : ByteLen(SubSeq(content, 1, k)) <= n }
    IN SubSeq(content, 1, CHOOSE k \in fit : \A j \in fit : k >= j)

IsSuffix(a, b) == Len(a) <= Len(b) /\ SubSeq(b, Len(b) - Len(a) + 1, Len(b)) = a

\* the cut C32 describes: the last occurrence, before the edge, of the first
\* of the five separators that occurs there at all; a hard cut when none does
StatedTruncate(content, max_chars) ==
    IF ByteLen(content) <= max_chars THEN content
    ELSE LET head == HeadWithin(content, SaturatingSub(max_chars, MarkerReserve))
             present == { k \in 1..Len(BoundarySeparators) :
                            RFind(head, BoundarySeparators[k]) # 0 }
             first == CHOOSE k \in present : \A j \in present : k <= j
         IN IF present # {}
            THEN SubSeq(content, 1, RFind(head, BoundarySeparators[first])
                                      + Len(BoundarySeparators[first]) - 1)
                    \o MarkerAfterSeparator
            ELSE IF RFind(head, <<" ">>) # 0
                 THEN SubSeq(content, 1, RFind(head, <<" ">>) - 1) \o MarkerAfterWord
                 ELSE head \o MarkerHardCut

Truncated == f_pc \in {"cut", "cut_panicked"}

\* C32 as stated: truncate returns the content unchanged when it fits the
\* budget; otherwise it cuts at the boundary found by searching backward from
\* the budget edge for double-newline, period-newline, period-space, newline
\* and space in that order, makes a hard cut only when none of them occurs
\* before the edge, and the result ends with the truncation marker
C32_AsStated ==
    Truncated =>
        /\ ~f_out.panicked
        /\ f_out.value = StatedTruncate(f_long_term, f_max_chars)
        /\ ByteLen(f_long_term) > f_max_chars => IsSuffix(MarkerHardCut, f_out.value)

\* whenever truncate returns: content that fits comes back unchanged, any
\* other result ends with the marker, and a cut that is not the stated one
\* passed over a separator lying in the first half of the head
C32_CutWhenReturned ==
    f_pc = "cut" =>
        LET truncate_at == SaturatingSub(f_max_chars, MarkerReserve)
            head == HeadWithin(f_long_term, truncate_at)
        IN /\ ByteLen(f_long_term) <= f_max_chars => f_out.value = f_long_term
           /\ ByteLen(f_long_term) > f_max_chars => IsSuffix(MarkerHardCut, f_out.value)
           /\ f_out.value # StatedTruncate(f_long_term, f_max_chars) =>
                 \E k \in 1..Len(BoundarySeparators) :
                    /\ RFind(head, BoundarySeparators[k]) # 0
                    /\ ByteOffset(head, RFind(head, BoundarySeparators[k]))
                          <= truncate_at \div 2

\* truncate made a hard cut although a sentence end and spaces lie before
\* the edge, all of them in the first half of the head
C32_HardCutPastSeparators ==
    /\ f_pc = "cut"
    /\ ByteLen(f_long_term) > f_max_chars
    /\ f_out.value = HeadWithin(f_long_term, SaturatingSub(f_max_chars, MarkerReserve))
                        \o MarkerHardCut
    /\ ContainsText(HeadWithin(f_long_term, SaturatingSub(f_max_chars, MarkerReserve)),
                    <<".", " ">>)

\* truncate panicked on a note that needed cutting
C32_PanicInCut ==
    /\ f_pc = "cut_panicked"
    /\ ByteLen(f_long_term) > f_max_chars

----------------------------------------------------------------------------
(* Properties of the agent loop: failed turns, order, cron turns *)

\* every provider attempt of the turn fails
FailedTurn(t) == ~IsSome(TurnOf(t).completion)

\* the task of turn t takes a step
Steps(t) == a_tasks'[t] # a_tasks[t]

\* C33: no step of a turn whose provider attempts all fail changes a stored
\* history, calls extract or touches the consolidator and the store; when
\* process_message returns, the turn goes on to publish, and what it
\* publishes is the error message for its own channel and chat
C33_FailedTurnLeavesHistory ==
    [][\A t \in TaskIds :
          (FailedTurn(t) /\ Steps(t)) =>
              /\ \A s \in Namespaces : a_histories'[s].messages = a_histories[s].messages
              /\ a_extracts' = a_extracts
              /\ UNCHANGED consVars
              /\ a_tasks[t].pc = "prompting" => a_tasks'[t].pc = "publishing"
              /\ a_tasks[t].pc = "publishing" =>
                    a_outbound' = Append(a_outbound,
                        OutboundMessage(SessionOf(t), ErrorReply(TextAllFailed)))
              /\ a_tasks[t].pc # "publishing" => a_outbound' = a_outbound]_vars

\* a failed turn of a session that already holds turns was answered with the
\* error message, a failed cron turn included, and the history is as it read it
C33_Witness ==
    \E t, u \in TaskIds :
        /\ FailedTurn(t) /\ FailedTurn(u)
        /\ TurnOf(t).sender_id = "cron"
        /\ a_tasks[t].pc = "published"
        /\ a_tasks[u].pc = "publishing"
        /\ a_tasks[u].after # <<>>
        /\ a_tasks[u].after = a_histories[SessionOf(u)].messages
        /\ \E k \in 1..Len(a_outbound) :
              a_outbound[k] = OutboundMessage(SessionOf(t), ErrorReply(TextAllFailed))

\* the turn has taken its session's lock, now or earlier
PastLock(t) ==
    a_tasks[t].pc \in {"prompting", "extracting", "consolidating", "publishing"}
                        \cup Terminal

\* C35 as stated: turns of the same session are processed, and their messages
\* appended to the stored history, in the order in which their inbound
\* messages were consumed from the bus
C35_AsStated ==
    \A t, u \in TaskIds :
        (t < u /\ SessionOf(t) = SessionOf(u) /\ PastLock(u)) => PastLock(t)

\* a later turn of a session holds the session's lock and has appended its
\* messages while an earlier turn of the session still waits for the lock
C35_Overtaken ==
    \E t, u \in TaskIds :
        /\ t < u
        /\ SessionOf(t) = SessionOf(u)
        /\ WaitsForHistory(t)
        /\ a_tasks[u].pc = "publishing"
        /\ a_histories[SessionOf(u)].messages = a_tasks[u].after
        /\ Contains(a_tasks[u].after, UserMessage(TurnOf(u).content))

\* a cron turn whose completion succeeds
CronOk(t) == TurnOf(t).sender_id = "cron" /\ IsSome(TurnOf(t).completion)

\* C36: a cron turn whose completion succeeds never reaches the publishing
\* step and none of its steps adds an outbound message, while the step that
\* handles its completion appends its user text and its reply to the stored
\* history of its session as for any other turn
C36_CronTurnSilent ==
    [][\A t \in TaskIds :
          CronOk(t) =>
              /\ a_tasks'[t].pc \notin {"publishing", "published"}
              /\ Steps(t) => a_outbound' = a_outbound
              /\ (a_tasks[t].pc = "prompting" /\ Steps(t)) =>
                    a_histories'[SessionOf(t)].messages =
                        a_histories[SessionOf(t)].messages
                            \o TurnMessages(TurnOf(t).content,
                                            Unwrap(TurnOf(t).completion))]_vars

\* a cron turn is over without an outbound message of its own: its text and
\* its reply are in the stored history, and every outbound message so far
\* belongs to another turn that was published
C36_Witness ==
    \E t \in TaskIds :
        /\ CronOk(t)
        /\ a_tasks[t].pc = "done"
        /\ Contains(a_histories[SessionOf(t)].messages, UserMessage(TurnOf(t).content))
        /\ Contains(a_histories[SessionOf(t)].messages,
                    AssistantMessage(Unwrap(TurnOf(t).completion)))
        /\ Len(a_outbound) = Cardinality({ u \in TaskIds : a_tasks[u].pc = "published" })
        /\ a_outbound # <<>>

----------------------------------------------------------------------------
(* Properties of prompt_with_fallback *)

RetryClasses == {"rate_limit", "timeout", "upstream"}

CallsOn(route) == { k \in 1..Len(p_log) : p_log[k].route = route }

\* the calls made so far follow the routes in order: the first call is the
\* first attempt on the first route, and each later call is either the next
\* attempt on the same route, after a failure of a retry class, or the first
\* attempt on the next route, after a failure that was not retried
CallsInOrder ==
    /\ p_log # <<>> => (p_log[1].route = 1 /\ p_log[1].attempt = 0)
    /\ \A k \in 1..(Len(p_log) - 1) :
          \/ /\ p_log[k + 1].route = p_log[k].route
             /\ p_log[k + 1].attempt = p_log[k].attempt + 1
             /\ p_log[k].outcome \in RetryClasses
          \/ /\ p_log[k + 1].route = p_log[k].route + 1
             /\ p_log[k + 1].attempt = 0
             /\ p_log[k].outcome # "ok"
             /\ p_log[k].outcome \in RetryClasses =>
                   p_log[k].attempt = PER_ROUTE_MAX_RETRIES

\* the bounds on the calls, the fresh copy each call starts from, and what is
\* returned: the first success with the history of that call alone, or the
\* error once every route has failed
AttemptsBounded ==
    /\ CallsInOrder
    /\ \A k \in 1..Len(p_log) : p_log[k].route \in 1..Len(p_routes)
    /\ \A r \in 1..Len(p_routes) : Cardinality(CallsOn(r)) <= PER_ROUTE_MAX_RETRIES + 1
    /\ Len(p_log) <= (PER_ROUTE_MAX_RETRIES + 1) * Len(p_routes)
    /\ \A k \in 1..Len(p_log) : p_log[k].temp = p_history
    /\ \A k \in 1..(Len(p_log) - 1) : p_log[k].outcome \notin {"ok", "pending"}
    /\ (p_pc = "returned" /\ p_result.ok) =>
          /\ p_log[Len(p_log)].outcome = "ok"
          /\ p_result.route = p_routes[p_log[Len(p_log)].route]
          /\ p_result.temp_history = p_history \o FullGrowth(p_result.text)
    /\ (p_pc = "returned" /\ ~p_result.ok) =>
          /\ \A r \in 1..Len(p_routes) : CallsOn(r) # {}
          /\ \A k \in 1..Len(p_log) : p_log[k].outcome \notin {"ok", "pending"}
          /\ Len(p_result.errors) = Len(p_routes)

\* C34 as stated: prompt_with_fallback always terminates; it tries the routes
\* in order with at most 3 attempts on a route, retrying only failures of the
\* classes rate_limit, timeout and upstream, returns on the first success,
\* returns an error after at most 3 x (number of routes) attempts when all
\* fail, and each attempt starts from a fresh copy of the history to send
C34_AsStated == []AttemptsBounded /\ <>(p_pc = "returned")

\* C34 without the termination: the bounds hold in every state
C34_AttemptsBounded == AttemptsBounded

\* every started call answers, so the function has returned or will
C34_ReturnsUnlessHung == <>(p_pc \in {"returned", "hung"})

\* all routes failed after three attempts each, the failed calls having
\* grown their copies of the history
C34_AllRetriesUsed ==
    /\ p_pc = "returned"
    /\ ~p_result.ok
    /\ Len(p_routes) = MaxRoutes
    /\ Len(p_log) = (PER_ROUTE_MAX_RETRIES + 1) * Len(p_routes)
    /\ p_temp # p_history

\* a call never answered: the function stays at its await
C34_Hung == p_pc = "hung" /\ Len(p_log) > 1

----------------------------------------------------------------------------
(* Properties of the cron service *)

\* the step in which a pass of process_due_jobs loads, selects and fires
PassStep == q_pc["scheduler"] = "sleeping" /\ q_pc'["scheduler"] = "saving"

JobWithId(jobs, id) == jobs[CHOOSE k \in 1..Len(jobs) : jobs[k].id = id]

\* the messages of the pass: each is for a job of the persisted store that is
\* enabled and whose next run is at or before the clock, carries that job's
\* message with sender_id "cron", and each such job has exactly one message
FiresDueOnly(loaded, now, new) ==
    /\ \A k \in 1..Len(new) :
          \E j \in 1..Len(loaded) :
             /\ loaded[j].id = new[k].job
             /\ loaded[j].enabled
             /\ IsSome(loaded[j].state.next_run_at_ms)
             /\ Unwrap(loaded[j].state.next_run_at_ms) <= now
             /\ new[k].msg.content = loaded[j].payload.message
             /\ new[k].msg.sender_id = "cron"
    /\ \A j \in 1..Len(loaded) :
          Cardinality({ k \in 1..Len(new) : new[k].job = loaded[j].id }) =
             IF /\ loaded[j].enabled
                /\ IsSome(loaded[j].state.next_run_at_ms)
                /\ Unwrap(loaded[j].state.next_run_at_ms) <= now
             THEN 1 ELSE 0

\* a fired job is left disabled without a next run, or with a next run
\* strictly later than the time of the pass
Rescheduled(job, now) ==
    \/ ~IsSome(job.state.next_run_at_ms) /\ ~job.enabled
    \/ IsSome(job.state.next_run_at_ms) /\ Unwrap(job.state.next_run_at_ms) > now

\* C37 as stated: a pass of process_due_jobs fires only jobs that are enabled
\* and whose next_run_at_ms is at or before the current time, publishing
\* exactly one inbound message per fired job; after a job fires, its
\* next_run_at_ms is either None with the job disabled or strictly later than
\* the firing time
C37_AsStated ==
    [][PassStep =>
          /\ FiresDueOnly(q_file, q_now, q_inbound')
          /\ \A k \in 1..Len(q_inbound') :
                Rescheduled(JobWithId(q_mem'["scheduler"], q_inbound'[k].job), q_now)]_vars

\* the first half of C37 alone: only enabled due jobs fire, once each per pass
C37_FiresDueOnly == [][PassStep => FiresDueOnly(q_file, q_now, q_inbound')]_vars

\* a job with an interval of 0 has fired and is due again at the same time
C37_DueAgainAtOnce ==
    /\ q_pc["scheduler"] = "saving"
    /\ \E k \in 1..Len(q_inbound) :
          LET job == JobWithId(q_mem["scheduler"], q_inbound[k].job)
          IN /\ job.schedule.kind = "every"
             /\ IsDue(job, q_inbound[k].at)
             /\ Unwrap(job.state.next_run_at_ms) = q_inbound[k].due

\* the persisted store agrees with the calls that returned: no removed job is
\* in it, every job added from the command line and not removed is in it
AgreesWithCalls(file) ==
    /\ q_removed \cap JobIds(file) = {}
    /\ (q_added \ q_removed) \subseteq JobIds(file)

\* the step in which a pass of process_due_jobs saves the store
SaveStep == q_pc["scheduler"] = "saving" /\ q_pc'["scheduler"] = "top"

\* C38 as stated: with several CronService instances over one cron.json, the
\* save of a scheduler pass never writes stale state over a newer change: a
\* job whose remove_job returned true stays absent from the persisted store
\* and a job added through another instance is not lost
C38_AsStated ==
    [][(SaveStep /\ AgreesWithCalls(q_file)) => AgreesWithCalls(q_file')]_vars

\* with no call of the command line between the load and the save of a pass,
\* the save keeps the persisted store in agreement with the calls
C38_SaveWithoutRace ==
    [][(SaveStep /\ AgreesWithCalls(q_file)
          /\ JobIds(q_mem["scheduler"]) = JobIds(q_file)) =>
            AgreesWithCalls(q_file')]_vars

====
